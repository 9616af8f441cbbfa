-------------------------- MODULE UploadedDirectory -------------------------
(***************************************************************************)
(* What S3Client::put_directory() promises ("Every file is attempted;      *)
(* on_file is called once per file as it finishes, never concurrently.     *)
(* Returns false when dir cannot be listed or any file failed"): the files *)
(* are listed, each is reported once, and the result is true when all were *)
(* reported as uploaded, which an uploaded one really is.                  *)
(***************************************************************************)

CONSTANT Files

VARIABLES
    listed,             \* the files found under the directory
    reported,           \* what on_file was told of each, or "none" yet
    object,             \* external: is there an object for the file
    ret                 \* what put_directory() returned, or "none" yet

vars == <<listed, reported, object, ret>>

Init ==
    /\ listed = {}
    /\ reported = [f \in Files |-> "none"]
    /\ object = [f \in Files |-> FALSE]
    /\ ret = "none"

Untold == \A f \in Files : reported[f] = "none"

List(f) ==
    /\ Untold /\ ret = "none"
    /\ listed' = listed \cup {f}
    /\ UNCHANGED <<reported, object, ret>>

Unlistable ==
    /\ Untold /\ ret = "none"
    /\ ret' = "fail"
    /\ UNCHANGED <<listed, reported, object>>

(* An object appears under the name of a listed file, and stays.           *)
Appear(f) ==
    /\ f \in listed
    /\ object' = [object EXCEPT ![f] = TRUE]
    /\ UNCHANGED <<listed, reported, ret>>

Report(f) ==
    /\ ret = "none"
    /\ f \in listed /\ reported[f] = "none"
    /\ \/ object[f] /\ reported' = [reported EXCEPT ![f] = "ok"]
       \/ reported' = [reported EXCEPT ![f] = "fail"]
    /\ UNCHANGED <<listed, object, ret>>

Return ==
    /\ ret = "none"
    /\ \A f \in listed : reported[f] # "none"
    /\ ret' = IF \E f \in listed : reported[f] = "fail" THEN "fail" ELSE "ok"
    /\ UNCHANGED <<listed, reported, object>>

Next ==
    \/ \E f \in Files : List(f) \/ Appear(f) \/ Report(f)
    \/ Unlistable \/ Return

Spec == Init /\ [][Next]_vars
=============================================================================
