---------------------------- MODULE ObjectStream ----------------------------
(***************************************************************************)
(* What the std::istream returned by S3MinStreamFactory::open() promises:  *)
(* a cursor over the bytes of one object.  Byte number i of the object is  *)
(* the number i.                                                           *)
(*                                                                         *)
(* `pos' is the cursor as the caller knows it: where the caller last       *)
(* sought to, plus the bytes it has read since.  After a failed call the   *)
(* caller knows no position (Lost) and nothing is promised until it seeks  *)
(* to an absolute offset.  `out' is what the last call returned.           *)
(***************************************************************************)
EXTENDS Integers

CONSTANTS
    Streams,        \* the open streams over the object
    Size            \* the object's length in bytes

VARIABLES pos, out

vars == <<pos, out>>

Lost == -1
Position == Nat \cup {Lost}
Kinds == {"none", "byte", "eof", "pos", "fail"}
Result == [kind : Kinds, at : Int]
Returns(kind, at) == [kind |-> kind, at |-> at]

Init ==
    /\ pos = [s \in Streams |-> 0]
    /\ out = [s \in Streams |-> Returns("none", 0)]

Return(s, p, result) ==
    /\ pos' = [pos EXCEPT ![s] = p]
    /\ out' = [out EXCEPT ![s] = result]

(* The byte under the cursor, and no other.                                *)
ReadByte(s) ==
    /\ pos[s] # Lost /\ pos[s] < Size
    /\ Return(s, pos[s] + 1, Returns("byte", pos[s]))

(* End of file only at the end of the object.                              *)
ReadEof(s) ==
    /\ pos[s] # Lost /\ pos[s] >= Size
    /\ Return(s, pos[s], Returns("eof", 0))

(* Seeking past the end is allowed; the position answered is the one       *)
(* sought, and the one the next relative seek starts from.                 *)
SeekTo(s) ==
    /\ pos'[s] \in Nat
    /\ Return(s, pos'[s], Returns("pos", pos'[s]))

Fail(s) == Return(s, Lost, Returns("fail", 0))

Stray(s) ==
    /\ pos[s] = Lost
    /\ out'[s] \in Result
    /\ Return(s, Lost, out'[s])

Reopen(s) == Return(s, 0, Returns("none", 0))

(* The process dies and another one starts.                                *)
Restart ==
    /\ pos' = [s \in Streams |-> 0]
    /\ out' = [s \in Streams |-> Returns("none", 0)]

Next ==
    \/ \E s \in Streams :
           ReadByte(s) \/ ReadEof(s) \/ SeekTo(s) \/ Fail(s) \/ Stray(s) \/ Reopen(s)
    \/ Restart

Spec == Init /\ [][Next]_vars
=============================================================================
