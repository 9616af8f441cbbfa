---------------------------- MODULE PythonReader ----------------------------
(***************************************************************************)
(* class S3Reader of bindings/src/bindings.cpp: what Python's read(),      *)
(* seek() and tell() make of a range stream.                               *)
(*                                                                         *)
(* Between them is the std::istream, with its state bits.  read(n), seek() *)
(* and tell() go through istream::read, seekg and tellg, which do nothing  *)
(* on a stream with a bit set; read() copies the stream buffer and neither *)
(* sees nor sets the bits.  A request that failed reaches the istream as   *)
(* the end of the file.                                                    *)
(*                                                                         *)
(* One Python call makes several calls of the stream, each of which may go *)
(* through the network while other readers act (the steps of S3Stream).    *)
(* A stream that no binding is around is a C++ caller's, which may call it *)
(* as it likes.                                                            *)
(***************************************************************************)
EXTENDS S3Stream, Sequences

CONSTANT Counts         \* the sizes callers read

ASSUME CountsAssumption == Counts \subseteq Nat \ {0}
ASSUME TellAssumption == 0 \in Deltas     \* tellg() is a relative seek by 0

VARIABLES
    python,         \* the streams a Python reader is around
    bits,           \* the istream's eofbit and failbit
    doing,          \* the Python call, and the step of it
    left,           \* read(n): how many bytes are still wanted
    waiting,        \* a call of the stream has begun and not been looked at
    buf,            \* the bytes read so far
    answer          \* what the last Python call returned

reader == <<python, bits, doing, left, waiting, buf, answer>>
readerVars == <<vars, reader>>

All == -1           \* read(): as many as there are
Minus1 == -1        \* tellg() failed: 2^64 - 1 to Python

Bytes(b, n) == [kind |-> "bytes", bytes |-> b, asked |-> n]
Position(p) == [kind |-> "pos", bytes |-> <<p>>, asked |-> 0]
Raises == [kind |-> "raise", bytes |-> << >>, asked |-> 0]
NoAnswer == [kind |-> "none", bytes |-> << >>, asked |-> 0]

ReaderInit ==
    /\ Init
    /\ python \in SUBSET Streams
    /\ bits = [s \in Streams |-> {}]
    /\ doing = [s \in Streams |-> "none"]
    /\ left = [s \in Streams |-> 0]
    /\ waiting = [s \in Streams |-> FALSE]
    /\ buf = [s \in Streams |-> << >>]
    /\ answer = [s \in Streams |-> NoAnswer]

Idle(s) == pc[s] = "idle" /\ doing[s] = "none"

Begin(s, what, n) ==
    /\ Set(doing, s, what) /\ Set(left, s, n) /\ Set(answer, s, NoAnswer)
    /\ UNCHANGED <<python, bits, waiting, buf, vars>>

(* The Python call ends.                                                   *)
Answer(s, a, b) ==
    /\ Set(answer, s, a) /\ Set(bits, s, b)
    /\ Set(doing, s, "none") /\ Set(left, s, 0) /\ Set(waiting, s, FALSE)
    /\ Set(buf, s, << >>)
    /\ UNCHANGED python

(* A call of the stream has returned.                                      *)
Returned(s) == waiting[s] /\ pc[s] = "idle"

OpenReader(s) == Open(s) /\ UNCHANGED reader

CloseReader(s) ==
    /\ doing[s] = "none"
    /\ Close(s)
    /\ Answer(s, NoAnswer, {})

-----------------------------------------------------------------------------
(* read(n) of a stream with a bit set does nothing.                        *)
Read(s, n) ==
    /\ Idle(s)
    /\ \/ bits[s] = {} /\ Begin(s, "read", n)
       \/ /\ bits[s] # {}
          /\ Answer(s, Bytes(<< >>, n), bits[s] \cup {"fail"})
          /\ UNCHANGED vars

ReadAll(s) == Idle(s) /\ Begin(s, "readall", All)

Pull(s) ==
    /\ doing[s] \in {"read", "readall"} /\ ~waiting[s]
    /\ ReadBuffered(s) \/ ReadEof(s) \/ ReadUnderflow(s)
    /\ Set(waiting, s, TRUE)
    /\ UNCHANGED <<python, bits, doing, left, buf, answer>>

Asked(s) == IF doing[s] = "readall" THEN All ELSE Len(buf[s]) + left[s]

(* Variants, here and below, are what a slip in the code would do; they    *)
(* are no part of the specification and show which property notices.       *)
(* Variant: one byte more than asked for is read.                          *)
TakeOneMore(s) ==
    /\ doing[s] \in {"read", "readall"} /\ Returned(s)
    /\ out[s].kind = "byte"
    /\ LET b == Append(buf[s], out[s].at) IN
           IF left[s] = 0
           THEN Answer(s, Bytes(b, Asked(s)), bits[s])
           ELSE /\ Set(buf, s, b)
                /\ Set(left, s, IF left[s] = All THEN All ELSE left[s] - 1)
                /\ Set(waiting, s, FALSE)
                /\ UNCHANGED <<python, bits, doing, answer>>
    /\ UNCHANGED vars

Take(s) ==
    /\ doing[s] \in {"read", "readall"} /\ Returned(s)
    /\ out[s].kind = "byte"
    /\ LET b == Append(buf[s], out[s].at) IN
           IF left[s] = 1
           THEN Answer(s, Bytes(b, Asked(s)), bits[s])
           ELSE /\ Set(buf, s, b)
                /\ Set(left, s, IF left[s] = All THEN All ELSE left[s] - 1)
                /\ Set(waiting, s, FALSE)
                /\ UNCHANGED <<python, bits, doing, answer>>
    /\ UNCHANGED vars

(* Variant: the buffer is not cut to what has been read.                   *)
TakeEndPadded(s) ==
    /\ doing[s] \in {"read", "readall"} /\ Returned(s)
    /\ out[s].kind \in {"eof", "fail"}
    /\ Answer(s, Bytes(buf[s] \o [i \in 1 .. left[s] |-> Junk], Asked(s)),
              bits[s] \cup (IF doing[s] = "read" THEN {"eof", "fail"} ELSE {}))
    /\ UNCHANGED vars

(* Variant: a short read is asked for the rest.                            *)
TakeEndAgain(s) ==
    /\ doing[s] \in {"read", "readall"} /\ Returned(s)
    /\ out[s].kind \in {"eof", "fail"}
    /\ Set(waiting, s, FALSE)
    /\ UNCHANGED <<python, bits, doing, left, buf, answer, vars>>

(* No byte: the object's end, or a failure.  read(n) sets both bits,       *)
(* read() sets those of its string stream.                                 *)
TakeEnd(s) ==
    /\ doing[s] \in {"read", "readall"} /\ Returned(s)
    /\ out[s].kind \in {"eof", "fail"}
    /\ Answer(s, Bytes(buf[s], Asked(s)),
              bits[s] \cup (IF doing[s] = "read" THEN {"eof", "fail"} ELSE {}))
    /\ UNCHANGED vars

-----------------------------------------------------------------------------
(* seekg() clears eofbit, and with failbit set does no more.  A seek to a  *)
(* negative offset, or from the end, is refused by the stream.  As tellg() *)
(* is a relative seek, the ones past the end are left out with those.      *)
Seek(s) ==
    /\ Idle(s)
    /\ "fail" \notin bits[s]
    /\ \/ \E t \in Offsets : (t <= Size \/ RelativePastEnd) /\ SeekBeg(s, t)
       \/ \E d \in Deltas : SeekCur(s, d)
    /\ Set(doing, s, "seek") /\ Set(waiting, s, TRUE) /\ Set(bits, s, {})
    /\ Set(answer, s, NoAnswer)
    /\ UNCHANGED <<python, left, buf>>

SeekRefused(s) ==
    /\ Idle(s)
    /\ Answer(s, Raises, {"fail"})
    /\ UNCHANGED vars

(* After the seek tellg() asks the stream where it is.                     *)
SeekEnd(s) ==
    /\ doing[s] = "seek" /\ Returned(s)
    /\ \/ /\ out[s].kind = "fail"
          /\ Answer(s, Raises, {"fail"})
       \/ /\ out[s].kind = "pos"
          /\ Set(doing, s, "tell") /\ Set(waiting, s, FALSE)
          /\ UNCHANGED <<python, bits, left, buf, answer>>
    /\ UNCHANGED vars

Tell(s) ==
    /\ Idle(s)
    /\ \/ bits[s] = {} /\ Begin(s, "tell", 0)
       \/ /\ bits[s] # {}
          /\ Answer(s, Position(Minus1), bits[s] \cup {"fail"})
          /\ UNCHANGED vars

TellAsk(s) ==
    /\ doing[s] = "tell" /\ ~waiting[s]
    /\ SeekCur(s, 0)
    /\ Set(waiting, s, TRUE)
    /\ UNCHANGED <<python, bits, doing, left, buf, answer>>

TellEnd(s) ==
    /\ doing[s] = "tell" /\ Returned(s)
    /\ Answer(s, Position(IF out[s].kind = "pos" THEN out[s].at ELSE Minus1), bits[s])
    /\ UNCHANGED vars

-----------------------------------------------------------------------------
PythonCall(s) ==
    /\ s \in python
    /\ \/ OpenReader(s) \/ CloseReader(s)
       \/ \E n \in Counts : Read(s, n)
       \/ ReadAll(s) \/ Seek(s) \/ SeekRefused(s) \/ Tell(s)

CppCall(s) == s \notin python /\ Call(s) /\ UNCHANGED reader

(* What the binding does inside a call.                                    *)
Inside(s) == Pull(s) \/ Take(s) \/ TakeEnd(s) \/ SeekEnd(s) \/ TellAsk(s) \/ TellEnd(s)

(* What the stream does inside one of its own.                             *)
StreamStep(s) ==
    /\ Lookup(s) \/ Fetch(s) \/ Store(s) \/ StoreStep(s)
    /\ UNCHANGED reader

(* The process dies.                                                       *)
Die ==
    /\ Crash
    /\ bits' = [s \in Streams |-> {}]
    /\ doing' = [s \in Streams |-> "none"]
    /\ left' = [s \in Streams |-> 0]
    /\ waiting' = [s \in Streams |-> FALSE]
    /\ buf' = [s \in Streams |-> << >>]
    /\ answer' = [s \in Streams |-> NoAnswer]
    /\ UNCHANGED python

ReaderNext ==
    \/ Configure /\ UNCHANGED reader
    \/ \E s \in Streams : PythonCall(s) \/ CppCall(s) \/ Inside(s) \/ StreamStep(s)
    \/ Die

ReaderSpec == ReaderInit /\ [][ReaderNext]_readerVars

(* The binding's own steps are taken, and the stream's as FairSpec says.   *)
FairReaderSpec ==
    /\ ReaderSpec
    /\ \A s \in Streams :
           /\ WF_readerVars(Inside(s))
           /\ WF_readerVars((Fetch(s) \/ StoreStep(s)) /\ UNCHANGED reader)
           /\ SF_readerVars((Lookup(s) \/ Store(s)) /\ UNCHANGED reader)

-----------------------------------------------------------------------------
(* The variables have their types; the stream is inside a call only when   *)
(* the binding waits for it, and never holds more bytes than asked for.    *)
ReaderTypeOK ==
    /\ TypeOK
    /\ bits \in [Streams -> SUBSET {"eof", "fail"}]
    /\ doing \in [Streams -> {"none", "read", "readall", "seek", "tell"}]
    /\ left \in [Streams -> Nat \cup {All}]
    /\ waiting \in [Streams -> BOOLEAN]
    /\ python \subseteq Streams
    /\ \A s \in Streams :
           /\ s \in python /\ InCall(s) => waiting[s]
           /\ waiting[s] => doing[s] # "none"
           /\ answer[s].kind = "bytes" /\ answer[s].asked # All =>
                  Len(answer[s].bytes) <= answer[s].asked

(* While no request has failed and no call has raised, a read returns the  *)
(* object's bytes from the caller's position on, all it asked for or all   *)
(* there are; and tell() and seek() return that position.                  *)
AnswersAreTrue ==
    \A s \in Streams :
        doing[s] = "none" /\ want[s] # Lost =>
            LET b == answer[s].bytes IN
            /\ answer[s].kind = "bytes" /\ bits[s] # {"fail"} =>
                   /\ \A i \in DOMAIN b : b[i] = want[s] - Len(b) + i - 1
                   /\ Len(b) # answer[s].asked => want[s] >= Size
            /\ answer[s].kind = "pos" /\ bits[s] = {} => b = <<want[s]>>

(* A Python read that meets a failed request raises ("open/read failed" in *)
(* examples/s3cat.py).                                                     *)
FailuresRaise ==
    \A s \in Streams :
        answer[s].kind = "bytes" /\ doing[s] = "none" => out[s].kind # "fail"

(* Every Python call returns.                                              *)
PythonReturns == \A s \in Streams : []<>(doing[s] = "none")
=============================================================================
