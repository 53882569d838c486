----------------------------- MODULE CallRecord -----------------------------
(***************************************************************************)
(* The buffer of a call record: create_call packs what is needed of the    *)
(* INVITE into it with addstrbfr, field after field, and first_invite_msg  *)
(* adds the To tag, at the end. Slots are used again, so a buffer holds    *)
(* bytes of earlier calls.                                                 *)
(*                                                                         *)
(* A string is its length; a cell of the buffer holds a byte of a field,   *)
(* a byte of an earlier call, or NUL.                                      *)
(***************************************************************************)
EXTENDS Integers, Sequences

CONSTANTS
    Size,       \* sizeof (call_buffer)
    Lengths,    \* of the strings of a message
    MaxLines,   \* Via and Route headers of a message
    MaxUses     \* messages the record is used for

ASSUME RecordAssumption ==
    Size \in Nat /\ Lengths \subseteq Nat /\ MaxLines \in Nat /\ MaxUses \in Nat

Fields == {"call_id", "call_from", "call_contact", "call_via", "call_route", "call_tag"}
Old == "old"
NUL == "NUL"

VARIABLES
    buf,        \* call_buffer
    ptr,        \* where each field begins
    pbuf,       \* where the next string goes
    call_buflen,\* what is left
    parts,      \* the strings still to come
    len,        \* history: the length of each field so far
    stage, uses

recordVars == <<buf, ptr, pbuf, call_buflen, parts, len, stage, uses>>

RecordInit ==
    /\ buf = [i \in 0..(Size - 1) |-> NUL]
    /\ ptr = [f \in Fields |-> 0]
    /\ pbuf = 0 /\ call_buflen = 0
    /\ parts = <<>> /\ len = [f \in Fields |-> 0]
    /\ stage = "free" /\ uses = 0

-----------------------------------------------------------------------------
(* addstrbfr: nlen bytes of field f at position i, and bnull (0 or 1) NUL. *)
Room(nlen, bnull) == nlen + bnull

(* A plausible slip: the NUL is not counted.                               *)
FitsWithoutNul(nlen, bnull) == nlen <= call_buflen

Fits(nlen, bnull) == Room(nlen, bnull) <= call_buflen

AddString(f, i, nlen, bnull) ==
    /\ buf' = [k \in 0..(Size - 1) |->
                CASE i <= k /\ k < i + nlen -> f
                  [] i + nlen <= k /\ k < i + Room(nlen, bnull) -> NUL
                  [] OTHER -> buf[k]]
    /\ pbuf' = i + Room(nlen, bnull)
    /\ call_buflen' = call_buflen - Room(nlen, bnull)
    /\ len' = [len EXCEPT ![f] = @ + nlen]

(* What create_call adds for a message: strings of one field after the     *)
(* other, a NUL with the last of each. A Via or Route line is its text,    *)
(* its name and line end.                                                  *)
Part(f, nlen, bnull) == [field |-> f, nlen |-> nlen, bnull |-> bnull]
Lines(f, extra, lengths) == [i \in DOMAIN lengths |-> Part(f, lengths[i] + extra, 0)]
Ended(f, strings) == Append(strings, Part(f, 0, 1))

Parts(id, from, contact, vias, routes) ==
    <<Part("call_id", id, 1), Part("call_from", from, 1)>>
    \o Ended("call_contact", Lines("call_contact", 0, contact))
    \o Ended("call_via", Lines("call_via", 7, vias))
    \o Ended("call_route", Lines("call_route", 9, routes))
    \o Ended("call_tag", <<>>)

Lists == UNION {[1..n -> Lengths] : n \in 0..MaxLines}
Contacts == {<<>>} \cup [1..1 -> Lengths]

Messages == {Parts(id, from, contact, vias, routes) :
    id \in Lengths, from \in Lengths, contact \in Contacts, vias \in Lists, routes \in Lists}

(* create_call begins.                                                     *)
BeginRecord ==
    /\ stage = "free" /\ uses < MaxUses
    /\ parts' \in Messages
    /\ pbuf' = 0 /\ call_buflen' = Size
    /\ stage' = "filling" /\ uses' = uses + 1
    /\ UNCHANGED <<buf, ptr, len>>

(* The slot is free: its bytes stay, the rest is set anew before it is     *)
(* read.                                                                   *)
Freed ==
    /\ buf' = [k \in 0..(Size - 1) |-> IF buf[k] = NUL THEN NUL ELSE Old]
    /\ ptr' = [f \in Fields |-> 0] /\ len' = [f \in Fields |-> 0]
    /\ pbuf' = 0 /\ call_buflen' = 0 /\ parts' = <<>>
    /\ stage' = "free"

(* A field's pointer is set when its first string is added. Without room,  *)
(* or with a Record-Route that cannot be parsed, create_call gives up; the *)
(* slot was never marked as taken.                                         *)
AddPart ==
    /\ stage = "filling" /\ parts # <<>>
    /\ LET part == Head(parts)
       IN \/ /\ Fits(part.nlen, part.bnull)
             /\ AddString(part.field, pbuf, part.nlen, part.bnull)
             /\ ptr' = [ptr EXCEPT ![part.field] = IF len[part.field] = 0 THEN pbuf ELSE @]
             /\ parts' = Tail(parts)
             /\ UNCHANGED stage
          \/ /\ ~Fits(part.nlen, part.bnull) \/ part.field = "call_route"
             /\ Freed
    /\ UNCHANGED uses

EndRecord ==
    /\ stage = "filling" /\ parts = <<>>
    /\ stage' = "entered"
    /\ UNCHANGED <<buf, ptr, pbuf, call_buflen, parts, len, uses>>

(* A plausible slip: the tag goes after the NUL that create_call put.      *)
TagPlaceAfter == pbuf

TagPlace == ptr["call_tag"]

(* first_invite_msg: the tag, over the empty one, or the call is deleted.  *)
AddTag ==
    /\ stage = "entered"
    /\ \E n \in Lengths :
        \/ /\ Fits(n, 1)
           /\ AddString("call_tag", TagPlace, n, 1)
           /\ stage' = "tagged"
           /\ UNCHANGED <<ptr, parts>>
        \/ ~Fits(n, 1) /\ Freed
    /\ UNCHANGED uses

(* delete_call *)
FreeRecord ==
    /\ stage \in {"entered", "tagged"}
    /\ Freed
    /\ UNCHANGED uses

RecordNext == BeginRecord \/ AddPart \/ EndRecord \/ AddTag \/ FreeRecord

RecordSpec == RecordInit /\ [][RecordNext]_recordVars
-----------------------------------------------------------------------------
(* addstrbfr is never told to write past the buffer: where the next string *)
(* goes and what is left of the room never exceed it, with the To tag too. *)
WithinBuffer ==
    /\ pbuf \in 0..Size /\ call_buflen \in 0..Size
    /\ pbuf + call_buflen <= Size

(* A call that is in the table reads every field back as it came: exactly  *)
(* its own bytes up to the first NUL, whatever an earlier call left there. *)
FieldsReadBack ==
    stage \in {"entered", "tagged"} =>
        \A f \in Fields :
            /\ \A k \in ptr[f]..(ptr[f] + len[f] - 1) : buf[k] = f
            /\ buf[ptr[f] + len[f]] = NUL
=============================================================================
