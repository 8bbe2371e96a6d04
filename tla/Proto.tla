------------------------------- MODULE Proto -------------------------------
(***************************************************************************)
(* The record protocol (internal/proto): Dial sends a salt and a first     *)
(* frame with the target, Accept finds the token that opens it, and from   *)
(* then on each side writes frames and reads those of the other.  A frame  *)
(* is two sealed parts, a header and the data; nothing on the wire numbers *)
(* them, so both ends count, and must not lose step.                       *)
(*                                                                         *)
(* A sealed part opens under the key and the nonce it was sealed with, and *)
(* under no other.  The connection below delivers in order what it         *)
(* delivers, and may be cut at any part of a frame.                        *)
(***************************************************************************)
EXTENDS Integers, Sequences, FiniteSets

CONSTANTS
    Tokens,      \* what a client may have been given
    Nothing,
    MaxPayload,  \* units of data in one frame
    Base, Width, \* a nonce has Width digits (bytes) to this base
    Total        \* bound: units the writer of each direction writes

Dirs == {"c2s", "s2c"}
Units == Nat              \* unit 0 is the target of the first frame
Padding == -1
Heads == [len : 1 .. MaxPayload, pad : {0, 1}]

ProtoAssumes ==
    /\ Base \in Nat \ {0} /\ Width \in Nat /\ MaxPayload \in Nat \ {0}
    /\ Total \in [Dirs -> Nat] /\ Nothing \notin Heads \cup Tokens

ASSUME ProtoAssumption == ProtoAssumes

VARIABLES
    token, tokens,   \* of the client; of the gateway's settings
    dial,            \* Dial: new, salted, ready, failed
    accept,          \* Accept: new, salted, opened (the header), ready, failed
    user,            \* the token Accept settled on
    enc, dec,        \* encNonce of the writer, decNonce of the reader, by direction
    wroteHead,       \* of each writer
    wire,            \* the parts under way
    left, sent,      \* what is left of p in writeFrame; units sealed so far
    hdr,             \* the header whose data readFrame waits for
    readBuf,
    got,             \* what Read has returned
    result,          \* what ended the reader: none, EOF, cut, damaged
    sealed,          \* history: every part that was ever sealed
    torn             \* the connection is gone

ends == <<token, tokens, dial, accept, user>>
writer == <<enc, wroteHead, left, sent, sealed>>
reader == <<dec, hdr, readBuf, got, result>>
protoVars == <<ends, writer, reader, wire, torn>>

Zero == [i \in 1 .. Width |-> 0]
Nonces == [1 .. Width -> 0 .. Base - 1]

\* A digit is incremented when all digits before it have wrapped to zero.
incNonce(n) ==
    [i \in 1 .. Width |->
        IF \A j \in 1 .. i - 1 : n[j] = Base - 1 THEN (n[i] + 1) % Base ELSE n[i]]

\* Mutant of deriveKey: one key for both directions.
oneKey(t, d) == <<t, "c2s">>

\* deriveKey: the key of a direction.  The salt is of this connection only.
deriveKey(t, d) == <<t, d>>

Part(key, nonce, kind, body) ==
    [key |-> key, nonce |-> nonce, kind |-> kind, body |-> body]
Opens(part, key, nonce) == part.key = key /\ part.nonce = nonce

ProtoTypeOK ==
    /\ token \in Tokens /\ tokens \subseteq Tokens /\ user \in Tokens \cup {Nothing}
    /\ dial \in {"new", "salted", "ready", "failed"}
    /\ accept \in {"new", "salted", "opened", "ready", "failed"}
    /\ enc \in [Dirs -> Nonces] /\ dec \in [Dirs -> Nonces]
    /\ wroteHead \in [Dirs -> BOOLEAN]
    /\ \A d \in Dirs : left[d] + sent[d] \in 0 .. Total[d]
    /\ \A d \in Dirs : /\ hdr[d] = Nothing \/ hdr[d].len \in 1 .. MaxPayload
                       /\ readBuf[d] \in Seq(Units) /\ Len(readBuf[d]) <= MaxPayload
                       /\ got[d] \in Seq(Units)
    /\ result \in [Dirs -> {"none", "EOF", "cut", "damaged"}]
    /\ torn \in BOOLEAN

ProtoInit ==
    /\ token \in Tokens /\ tokens \in SUBSET Tokens /\ user = Nothing
    /\ dial = "new" /\ accept = "new"
    /\ enc = [d \in Dirs |-> Zero] /\ dec = [d \in Dirs |-> Zero]
    /\ wroteHead = [d \in Dirs |-> FALSE]
    /\ wire = [c2s |-> <<>>, s2c |-> <<>>]
    /\ left = [d \in Dirs |-> 0] /\ sent = [d \in Dirs |-> 0]
    /\ hdr = [d \in Dirs |-> Nothing] /\ readBuf = [d \in Dirs |-> <<>>]
    /\ got = [d \in Dirs |-> <<>>] /\ result = [d \in Dirs |-> "none"]
    /\ sealed = {} /\ torn = FALSE

-----------------------------------------------------------------------------
(* sealFrame: two parts, two nonces, one Write.                             *)

\* The first frame of a writer is always padded, the others now and then.
framePad(d) == IF wroteHead[d] THEN {0, 1} ELSE {1}

sealFrame(d, key, chunk, pad) ==
    LET head == Part(key, enc[d], "head", [len |-> Len(chunk), pad |-> pad])
        next == incNonce(enc[d])
        body == chunk \o [i \in 1 .. pad |-> Padding]
        data == Part(key, next, "data", body)
    IN /\ enc' = [enc EXCEPT ![d] = incNonce(next)]
       /\ wroteHead' = [wroteHead EXCEPT ![d] = TRUE]
       /\ sealed' = sealed \cup {head, data}
       /\ wire' = [wire EXCEPT ![d] = @ \o <<head, data>>]

\* What became of the frame when the Write failed nobody can tell.
WriteCut(d) ==
    /\ torn /\ left[d] > 0
    /\ left' = [left EXCEPT ![d] = 0]
    /\ UNCHANGED <<ends, enc, wroteHead, sent, sealed, reader, wire, torn>>

-----------------------------------------------------------------------------
(* Dial and Accept.                                                         *)

DialSalt ==
    /\ dial = "new"
    /\ dial' = IF torn THEN "failed" ELSE "salted"
    /\ UNCHANGED <<token, tokens, accept, user, writer, reader, wire, torn>>

DialTarget ==
    /\ dial = "salted"
    /\ IF torn
       THEN dial' = "failed" /\ UNCHANGED <<writer, wire>>
       ELSE /\ dial' = "ready"
            /\ \E pad \in framePad("c2s") :
                sealFrame("c2s", deriveKey(token, "c2s"), <<0>>, pad)
            /\ UNCHANGED <<left, sent>>
    /\ UNCHANGED <<token, tokens, accept, user, reader, torn>>

AcceptSalt ==
    /\ accept = "new" /\ dial \in {"salted", "ready"}
    /\ accept' = "salted"
    /\ UNCHANGED <<token, tokens, dial, user, writer, reader, wire, torn>>

\* The lengths an opened header may announce; readFrame and Accept ask the same.
InBounds(part) == part.kind = "head" /\ part.body.len \in 1 .. MaxPayload

\* Which token opens the header?  Every one is tried with a nonce of its own,
\* and passed over if the lengths are out of bounds.
Fitting(part) ==
    {t \in tokens : Opens(part, deriveKey(t, "c2s"), Zero) /\ InBounds(part)}

AcceptHeader ==
    /\ accept = "salted" /\ wire["c2s"] # <<>>
    /\ LET part == Head(wire["c2s"])
       IN IF Fitting(part) = {}
          THEN accept' = "failed" /\ UNCHANGED <<user, dec, hdr>>
          ELSE /\ accept' = "opened"
               /\ user' \in Fitting(part)
               /\ dec' = [dec EXCEPT !["c2s"] = incNonce(Zero)]
               /\ hdr' = [hdr EXCEPT !["c2s"] = part.body]
    /\ wire' = [wire EXCEPT !["c2s"] = Tail(@)]
    /\ UNCHANGED <<token, tokens, dial, writer, readBuf, got, result, torn>>

AcceptTarget ==
    /\ accept = "opened" /\ wire["c2s"] # <<>>
    /\ IF Opens(Head(wire["c2s"]), deriveKey(user, "c2s"), dec["c2s"])
       THEN /\ accept' = "ready"
            /\ dec' = [dec EXCEPT !["c2s"] = incNonce(@)]
       ELSE accept' = "failed" /\ UNCHANGED dec
    /\ hdr' = [hdr EXCEPT !["c2s"] = Nothing]
    /\ wire' = [wire EXCEPT !["c2s"] = Tail(@)]
    /\ UNCHANGED <<token, tokens, dial, user, writer, readBuf, got, result, torn>>

\* The deadline of the caller has passed, or the connection is gone.
AcceptFails ==
    /\ accept \in {"new", "salted", "opened"}
    /\ accept' = "failed"
    /\ UNCHANGED <<token, tokens, dial, user, writer, reader, wire, torn>>

-----------------------------------------------------------------------------
(* Write and Read of the two ends.                                          *)

Ready(d, end) ==
    IF (d = "c2s") = (end = "writer") THEN dial = "ready" ELSE accept = "ready"

\* The key a side has for a direction: the client's token, or the one found.
KeyOf(d, end) ==
    deriveKey(IF (d = "c2s") = (end = "writer") THEN token ELSE user, d)

Write(d) ==
    /\ Ready(d, "writer") /\ left[d] = 0 /\ ~ torn
    /\ \E n \in 1 .. Total[d] - sent[d] : left' = [left EXCEPT ![d] = n]
    /\ UNCHANGED <<ends, enc, wroteHead, sent, sealed, reader, wire, torn>>

MinOf(a, b) == IF a < b THEN a ELSE b

\* One round of writeFrame.
WriteFrame(d) ==
    /\ left[d] > 0 /\ ~ torn
    /\ LET n == MinOf(left[d], MaxPayload)
       IN /\ \E pad \in framePad(d) :
                sealFrame(d, KeyOf(d, "writer"), [i \in 1 .. n |-> sent[d] + i], pad)
          /\ left' = [left EXCEPT ![d] = @ - n]
          /\ sent' = [sent EXCEPT ![d] = @ + n]
    /\ UNCHANGED <<ends, reader, torn>>

Reading(d) == /\ Ready(d, "reader") /\ result[d] = "none" /\ readBuf[d] = <<>>
              /\ wire[d] # <<>>

Damaged(d) == /\ result' = [result EXCEPT ![d] = "damaged"]
              /\ UNCHANGED <<dec, hdr, readBuf>>

\* readFrame up to the header; a length out of bounds is an error as well.
ReadHeader(d) ==
    /\ Reading(d) /\ hdr[d] = Nothing
    /\ LET part == Head(wire[d])
       IN IF Opens(part, KeyOf(d, "reader"), dec[d]) /\ InBounds(part)
          THEN /\ dec' = [dec EXCEPT ![d] = incNonce(@)]
               /\ hdr' = [hdr EXCEPT ![d] = part.body]
               /\ UNCHANGED <<readBuf, result>>
          ELSE Damaged(d)
    /\ wire' = [wire EXCEPT ![d] = Tail(@)]
    /\ UNCHANGED <<ends, writer, got, torn>>

\* Mutant of ReadData: the padding is handed to the reader.
ReadPadded(d) ==
    /\ Reading(d) /\ hdr[d] # Nothing
    /\ LET part == Head(wire[d])
       IN IF Opens(part, KeyOf(d, "reader"), dec[d])
          THEN /\ dec' = [dec EXCEPT ![d] = incNonce(@)]
               /\ readBuf' = [readBuf EXCEPT ![d] = part.body]
               /\ hdr' = [hdr EXCEPT ![d] = Nothing]
               /\ UNCHANGED result
          ELSE Damaged(d)
    /\ wire' = [wire EXCEPT ![d] = Tail(@)]
    /\ UNCHANGED <<ends, writer, got, torn>>

\* The rest of readFrame: the padding is left behind.
ReadData(d) ==
    /\ Reading(d) /\ hdr[d] # Nothing
    /\ LET part == Head(wire[d])
       IN IF Opens(part, KeyOf(d, "reader"), dec[d])
          THEN /\ dec' = [dec EXCEPT ![d] = incNonce(@)]
               /\ readBuf' = [readBuf EXCEPT ![d] = SubSeq(part.body, 1, hdr[d].len)]
               /\ hdr' = [hdr EXCEPT ![d] = Nothing]
               /\ UNCHANGED result
          ELSE Damaged(d)
    /\ wire' = [wire EXCEPT ![d] = Tail(@)]
    /\ UNCHANGED <<ends, writer, got, torn>>

\* Read copies what fits into the caller's buffer and keeps the rest.
Read(d) ==
    /\ readBuf[d] # <<>> /\ result[d] = "none"
    /\ \E n \in DOMAIN readBuf[d] :
        /\ got' = [got EXCEPT ![d] = @ \o SubSeq(readBuf[d], 1, n)]
        /\ readBuf' = [readBuf EXCEPT ![d] = SubSeq(@, n + 1, Len(@))]
    /\ UNCHANGED <<ends, writer, dec, hdr, result, wire, torn>>

\* io.ReadFull meets the end: between two parts it says EOF, in the midst of
\* one it does not.
ReadEnds(d) ==
    /\ Ready(d, "reader") /\ result[d] = "none" /\ readBuf[d] = <<>>
    /\ torn /\ wire[d] = <<>>
    /\ \E r \in {"EOF", "cut"} : result' = [result EXCEPT ![d] = r]
    /\ UNCHANGED <<ends, writer, dec, hdr, readBuf, got, wire, torn>>

\* The connection below is gone; some of what was under way still arrives.
Tear ==
    /\ ~ torn /\ torn' = TRUE
    /\ \E up \in 0 .. Len(wire["c2s"]), down \in 0 .. Len(wire["s2c"]) :
        wire' = [c2s |-> SubSeq(wire["c2s"], 1, up),
                 s2c |-> SubSeq(wire["s2c"], 1, down)]
    /\ UNCHANGED <<ends, writer, reader>>

ProtoNext ==
    \/ DialSalt \/ DialTarget
    \/ AcceptSalt \/ AcceptHeader \/ AcceptTarget \/ AcceptFails
    \/ \E d \in Dirs : \/ Write(d) \/ WriteFrame(d) \/ WriteCut(d)
                       \/ ReadHeader(d) \/ ReadData(d) \/ Read(d) \/ ReadEnds(d)
    \/ Tear

ProtoSpec == ProtoInit /\ [][ProtoNext]_protoVars

-----------------------------------------------------------------------------
(* Properties.                                                              *)

\* No key and nonce ever seal two different parts: not header and data of a
\* frame, not two frames, not the two directions of a session.
NonceOnce == \A p, q \in sealed : Opens(p, q.key, q.nonce) => p = q

\* Accept, which tries the tokens in any order, settles on that of the client,
\* and from then on both sides keep step: whatever the sizes of writes, frames
\* and reads, the padding and the place where the connection is cut, what Read
\* returns is the beginning of what was written, and no part fails to open
\* ("damaged frame").
InStep ==
    /\ accept \in {"opened", "ready"} => user = token /\ token \in tokens
    /\ \A d \in Dirs :
        /\ got[d] = [i \in DOMAIN got[d] |-> i]
        /\ Len(got[d]) <= sent[d]
        /\ result[d] # "damaged"
=============================================================================
