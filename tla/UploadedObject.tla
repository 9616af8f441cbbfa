--------------------------- MODULE UploadedObject ---------------------------
(***************************************************************************)
(* What S3Client::put_file() promises about the object it writes.  The     *)
(* object is the sequence of its parts, each the state of the file it was  *)
(* read from.  It is absent, then whole: as long as put_file() found the   *)
(* file when it began, and each part read from a file that had that part   *)
(* to its end.  It is never shorter, though a file that has grown is cut   *)
(* there, and never removed.  put_file() says that it succeeded only when  *)
(* the object is there.  When it says that it failed, the object may be    *)
(* there or may even appear later: a request whose answer was lost.        *)
(***************************************************************************)
EXTENDS Integers

CONSTANT Parts          \* how many parts the file had when it was measured

VARIABLES
    object,             \* each part of the object, or NoPart
    ret                 \* what put_file() returned, or "none" yet

vars == <<object, ret>>

PartNos == 0 .. Parts - 1
File == [ver : Nat, len : Nat]
NoPart == [ver |-> -1, len |-> -1]
Absent == [i \in PartNos |-> NoPart]
Whole == {o \in [PartNos -> File] : \A i \in PartNos : i < o[i].len}

Init == object = Absent /\ ret = "none"

Publish ==
    /\ object' \in Whole
    /\ UNCHANGED ret

Succeed ==
    /\ ret = "none"
    /\ object' \in Whole
    /\ ret' = "ok"

Fail ==
    /\ ret = "none"
    /\ ret' = "fail"
    /\ object' \in Whole \cup {object}

Next == Publish \/ Succeed \/ Fail

Spec == Init /\ [][Next]_vars
=============================================================================
