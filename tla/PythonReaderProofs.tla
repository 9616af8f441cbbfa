------------------------- MODULE PythonReaderProofs -------------------------
(***************************************************************************)
(* What Python's read(), seek() and tell() return, for any object, any     *)
(* number of readers and C++ callers, and any sizes read: proved over what *)
(* S3StreamProofs proves of the streams, and under its conditions.         *)
(***************************************************************************)
EXTENDS PythonReader, S3StreamProofs

Reading(s) == doing[s] \in {"read", "readall"}
Placing(s) == doing[s] \in {"seek", "tell"}

Answers == [kind : {"none", "bytes", "pos", "raise"}, bytes : Seq(Int), asked : Nat \cup {All}]

ReaderTypes ==
    /\ python \subseteq Streams
    /\ bits \in [Streams -> SUBSET {"eof", "fail"}]
    /\ doing \in [Streams -> {"none", "read", "readall", "seek", "tell"}]
    /\ left \in [Streams -> Nat \cup {All}]
    /\ waiting \in [Streams -> BOOLEAN]
    /\ buf \in [Streams -> Seq(Int)]
    /\ answer \in [Streams -> Answers]

(* A stream is at work only for the Python call around it, and at the kind *)
(* of call that one makes.                                                 *)
StepFits(s) ==
    /\ s \notin python => doing[s] = "none" /\ answer[s] = NoAnswer /\ bits[s] = {}
    /\ s \in python /\ InCall(s) => waiting[s]
    /\ doing[s] = "none" => ~waiting[s] /\ left[s] = 0 /\ buf[s] = << >>
    /\ doing[s] # "none" => pc[s] # "closed" /\ answer[s] = NoAnswer
    /\ InCall(s) /\ Reading(s) => op[s] = "read"
    /\ InCall(s) /\ Placing(s) => op[s] = "seek"
    /\ doing[s] = "read" => left[s] \in Nat \ {0}
    /\ doing[s] = "readall" => left[s] = All

(* What the stream answered, and nobody has looked at.                     *)
ResultFits(s) ==
    Returned(s) =>
        /\ Reading(s) => out[s].kind \in {"byte", "eof", "fail"}
        /\ Placing(s) => out[s].kind \in {"pos", "fail"}
        /\ want[s] # Lost =>
               /\ out[s].kind # "fail"
               /\ out[s].kind = "byte" => out[s].at = want[s] - 1
               /\ out[s].kind = "eof" => want[s] >= Size
               /\ out[s].kind = "pos" => out[s].at = want[s]

(* The bytes read so far are those before the position; one that has been  *)
(* answered is still to be taken.                                          *)
NextByte(s) == IF Returned(s) /\ out[s].kind = "byte" THEN want[s] - 1 ELSE want[s]

BytesFit(s) ==
    Reading(s) /\ want[s] # Lost =>
        \A i \in DOMAIN buf[s] : buf[s][i] = NextByte(s) - Len(buf[s]) + i - 1

(* A reader whose istream has seen the end is there.                       *)
BitsFit(s) ==
    /\ "eof" \in bits[s] => "fail" \in bits[s]
    /\ "eof" \in bits[s] /\ want[s] # Lost => want[s] >= Size
    /\ Placing(s) => bits[s] = {}

AnswerFits(s) ==
    /\ doing[s] = "none" /\ want[s] # Lost =>
           /\ answer[s].kind = "bytes" /\ bits[s] # {"fail"} =>
                  /\ \A i \in DOMAIN answer[s].bytes :
                         answer[s].bytes[i] = want[s] - Len(answer[s].bytes) + i - 1
                  /\ Len(answer[s].bytes) # answer[s].asked => want[s] >= Size
           /\ answer[s].kind = "pos" /\ bits[s] = {} => answer[s].bytes = <<want[s]>>
    /\ answer[s].kind = "bytes" /\ answer[s].asked # All =>
           Len(answer[s].bytes) <= answer[s].asked

ReaderFits(s) ==
    StepFits(s) /\ ResultFits(s) /\ BytesFit(s) /\ BitsFit(s) /\ AnswerFits(s)

ReaderInv == IInv /\ ReaderTypes /\ \A s \in Streams : ReaderFits(s)
-----------------------------------------------------------------------------
(* A Python reader is one of the callers that S3Stream allows.             *)
LEMMA PythonIsCaller == ASSUME [ReaderNext]_readerVars PROVE [Next]_vars
  <1>1. CASE UNCHANGED readerVars
    BY <1>1 DEF readerVars
  <1>2. CASE Configure /\ UNCHANGED reader
    BY <1>2 DEF Next
  <1>3. ASSUME NEW s \in Streams, PythonCall(s) PROVE [Next]_vars
    <2>1. Call(s) \/ UNCHANGED vars
      BY <1>3 DEF PythonCall, OpenReader, CloseReader, Read, ReadAll, Seek, SeekRefused, Tell,
                  Begin, Call
    <2> QED BY <2>1 DEF Next
  <1>4. ASSUME NEW s \in Streams, Inside(s) PROVE [Next]_vars
    <2>1. Call(s) \/ UNCHANGED vars
      BY <1>4, TellAssumption DEF Inside, Pull, Take, TakeEnd, SeekEnd, TellAsk, TellEnd, Call
    <2> QED BY <2>1 DEF Next
  <1>5. ASSUME NEW s \in Streams, CppCall(s) \/ StreamStep(s) PROVE [Next]_vars
    BY <1>5 DEF CppCall, StreamStep, Next
  <1>6. CASE Die
    BY <1>6 DEF Die, Next
  <1> QED BY <1>1, <1>2, <1>3, <1>4, <1>5, <1>6 DEF ReaderNext

THEOREM ReadersAreCallers == ReaderSpec => Spec
  <1>1. ReaderInit => Init
    BY DEF ReaderInit
  <1>2. [ReaderNext]_readerVars => [Next]_vars
    BY PythonIsCaller
  <1> QED BY <1>1, <1>2, PTL DEF ReaderSpec, Spec

-----------------------------------------------------------------------------
(* What concerns the reader around r stays as it is.                       *)
StreamSame(r) ==
    pc'[r] = pc[r] /\ op'[r] = op[r] /\ want'[r] = want[r] /\ out'[r] = out[r]

ReaderSame(r) ==
    /\ bits'[r] = bits[r] /\ doing'[r] = doing[r] /\ left'[r] = left[r]
    /\ waiting'[r] = waiting[r] /\ buf'[r] = buf[r] /\ answer'[r] = answer[r]

LEMMA SameFits ==
    ASSUME NEW r \in Streams, ReaderFits(r), python' = python, StreamSame(r), ReaderSame(r)
    PROVE  ReaderFits(r)'
  <1> USE DEF StreamSame, ReaderSame
  <1>1. StepFits(r)'
    BY DEF ReaderFits, StepFits, InCall, Reading, Placing, NoAnswer
  <1>2. ResultFits(r)'
    BY DEF ReaderFits, ResultFits, Returned, Reading, Placing
  <1>3. BytesFit(r)'
    BY DEF ReaderFits, BytesFit, NextByte, Returned, Reading
  <1>4. BitsFit(r)' /\ AnswerFits(r)'
    BY DEF ReaderFits, BitsFit, AnswerFits, Placing
  <1> QED BY <1>1, <1>2, <1>3, <1>4 DEF ReaderFits

(* A step of one stream is no step of another.                             *)
LEMMA OthersSame ==
    ASSUME TypeOK, NEW s \in Streams, NEW r \in Streams \ {s},
           Call(s) \/ Lookup(s) \/ Fetch(s) \/ Store(s) \/ StoreStep(s)
    PROVE  StreamSame(r)
  <1> USE DEF StreamSame, Set, TypeOK
  <1>1. EndCall(s) => pc'[r] = pc[r] /\ op'[r] = op[r]
    BY DEF EndCall
  <1>2. \A start, bytes, offset, atEnd :
            Succeed(s, start, bytes, offset, atEnd) => StreamSame(r)
    BY <1>1 DEF Succeed
  <1>3. FailCall(s) => StreamSame(r)
    BY <1>1 DEF FailCall
  <1>4. \A bytes : InstallPartial(s, bytes) \/ InstallFull(s, bytes) => StreamSame(r)
    BY <1>2 DEF InstallPartial, InstallFull
  <1>5. CASE Call(s)
    <2>1. \A t, p : SeekPos(s, t, p) => StreamSame(r)
      BY DEF SeekPos, AnswerAtOnce, StartLoad
    <2> QED BY <1>5, <2>1 DEF Call, Open, Close, ReadBuffered, ReadEof, ReadUnderflow,
                              SeekBeg, SeekCur, AnswerAtOnce, StartLoad
  <1>6. CASE Lookup(s)
    BY <1>4, <1>6 DEF Lookup, LookupHit, LookupMiss
  <1>7. CASE Fetch(s)
    BY <1>2, <1>3, <1>4, <1>7 DEF Fetch, GetCredentials, MissingCredentials, GetPartial,
                                  GetFull, GetBeyond, GetRedirect, GetRetry, GetFail
  <1>8. CASE Store(s)
    BY <1>4, <1>8 DEF Store, StoreBegin, StoreRefused
  <1>9. CASE StoreStep(s)
    BY <1>4, <1>9 DEF StoreStep
  <1> QED BY <1>5, <1>6, <1>7, <1>8, <1>9

-----------------------------------------------------------------------------
(* What a step of the stream is to the reader around it: the end of a call *)
(* with one of the results it may have, or a step inside one.              *)
ReadKinds == {"byte", "eof", "fail"}
SeekKinds == {"pos", "fail"}

AfterStep(s, kinds, o) ==
    \/ Ends(s) /\ pc'[s] = "idle" /\ out'[s].kind \in kinds
    \/ UNCHANGED <<want, out>> /\ InCall(s)' /\ op'[s] = o

LEMMA ReadBegins ==
    ASSUME IInv, NEW s \in Streams, ReadBuffered(s) \/ ReadEof(s) \/ ReadUnderflow(s)
    PROVE  AfterStep(s, ReadKinds, "read")
  <1>0. TypeOK /\ StreamInv(s)
    BY DEF IInv
  <1>1. CASE ReadBuffered(s)
    BY <1>0, <1>1, ReadBufferedRefines
    DEF ReadBuffered, AnswerAtOnce, Returns, Set, TypeOK, AfterStep, ReadKinds
  <1>2. CASE ReadEof(s)
    BY <1>0, <1>2, ReadEofRefines
    DEF ReadEof, AnswerAtOnce, Returns, Set, TypeOK, AfterStep, ReadKinds
  <1>3. CASE ReadUnderflow(s)
    BY <1>0, <1>3 DEF ReadUnderflow, StartLoad, Set, TypeOK, InCall, AfterStep
  <1> QED BY <1>1, <1>2, <1>3

LEMMA SeekBegins ==
    ASSUME Sound, IInv, NEW s \in Streams,
           (\E t \in Offsets : SeekBeg(s, t)) \/ (\E d \in Deltas : SeekCur(s, d))
    PROVE  AfterStep(s, SeekKinds, "seek")
  <1>0. TypeOK /\ StreamInv(s)
    BY DEF IInv
  <1>1. PICK t, p : /\ pc[s] = "idle" /\ t \in Offsets /\ SeekPos(s, t, p)
                    /\ p = t \/ (p = Lost /\ want[s] = Lost)
    <2>1. CASE \E t \in Offsets : SeekBeg(s, t)
      BY <2>1 DEF SeekBeg
    <2>2. CASE \E d \in Deltas : SeekCur(s, d)
      <3>1. PICK d \in Deltas : SeekCur(s, d)
        BY <2>2
      <3>2. PICK t, p : /\ t = wstart[s] + goff[s] + d
                        /\ p = (IF want[s] = Lost THEN Lost ELSE want[s] + d)
                        /\ pc[s] = "idle" /\ SeekPos(s, t, p)
        BY <3>1 DEF SeekCur, SeekPos, AnswerAtOnce, StartLoad, Set
      <3>3. want[s] <= Size /\ t \in Offsets
        BY <3>1, <3>2 DEF SeekCur, Sound
      <3>4. want[s] # Lost => want[s] = wstart[s] + goff[s]
        BY <1>0, <3>3, SizesAssumption DEF StreamInv, CursorInv, TypeOK
      <3> QED BY <3>2, <3>3, <3>4
    <2> QED BY <2>1, <2>2
  <1>2. \/ Ends(s) /\ pc'[s] = "idle"
        \/ UNCHANGED <<want, out>> /\ InCall(s)' /\ op'[s] = "seek"
    BY <1>0, <1>1, SeekPosRefines
  <1>3. InCall(s)' \/ out'[s].kind = "pos"
    BY <1>0, <1>1 DEF SeekPos, AnswerAtOnce, StartLoad, Returns, Set, TypeOK, InCall
  <1> QED BY <1>2, <1>3 DEF AfterStep, SeekKinds, InCall

OfItsKind(s) == /\ op[s] = "read" => out'[s].kind \in ReadKinds
                /\ op[s] = "seek" => out'[s].kind \in SeekKinds

LEMMA LoadGoesOn ==
    ASSUME Sound, IInv, NEW s \in Streams,
           Lookup(s) \/ Fetch(s) \/ Store(s) \/ StoreStep(s)
    PROVE  /\ InCall(s)
           /\ op[s] = "read" => AfterStep(s, ReadKinds, "read")
           /\ op[s] = "seek" => AfterStep(s, SeekKinds, "seek")
  <1>0. TypeOK
    BY DEF IInv
  <1>1. InCall(s)
    BY DEF Lookup, LookupHit, LookupMiss, Fetch, GetCredentials, MissingCredentials,
           GetPartial, GetFull, GetBeyond, GetRedirect, GetRetry, GetFail, Reached,
           Store, StoreBegin, StoreRefused, StoreStep, InCall
  <1>2. \/ Ends(s) /\ pc'[s] = "idle"
        \/ UNCHANGED <<want, out>> /\ InCall(s)' /\ op'[s] = op[s]
    BY LoadRefines
  <1>3. pc'[s] = "idle" => OfItsKind(s)
    <2>1. \A start, bytes, offset, atEnd :
              Succeed(s, start, bytes, offset, atEnd) => OfItsKind(s)
      BY <1>0 DEF OfItsKind, Succeed, Set, Returns, TypeOK, ReadKinds, SeekKinds
    <2>2. FailCall(s) => OfItsKind(s)
      BY <1>0 DEF OfItsKind, FailCall, Set, Returns, TypeOK, ReadKinds, SeekKinds
    <2>3. \A bytes : InstallPartial(s, bytes) \/ InstallFull(s, bytes) => OfItsKind(s)
      BY <1>0 DEF InstallPartial, InstallFull, OfItsKind, Succeed, Set, Returns, TypeOK,
                  ReadKinds, SeekKinds
    <2>4. CASE Lookup(s)
      BY <1>0, <2>3, <2>4 DEF Lookup, LookupHit, LookupMiss, Set, TypeOK
    <2>5. CASE Fetch(s)
      BY <1>0, <2>1, <2>2, <2>3, <2>5
      DEF Fetch, GetCredentials, MissingCredentials, GetPartial, GetFull, GetBeyond,
          GetRedirect, GetRetry, GetFail, Reached, Set, TypeOK
    <2>6. CASE Store(s)
      BY <1>0, <2>3, <2>6 DEF Store, StoreBegin, StoreRefused, Set, TypeOK
    <2>7. CASE StoreStep(s)
      <3>1. PICK bytes : InstallPartial(s, bytes) \/ pc'[s] = "storing"
        BY <2>7 DEF StoreStep, InstallPartial, Succeed, EndCall, Set
      <3> QED BY <2>3, <3>1
    <2>8. pc'[s] = "idle" => OfItsKind(s)
      BY <2>4, <2>5, <2>6, <2>7
    <2> QED BY <2>8
  <1> QED BY <1>1, <1>2, <1>3 DEF AfterStep, OfItsKind

(* The caller that knows its position learns the truth.                    *)
LEMMA EndsTruly ==
    ASSUME TypeOK, NEW s \in Streams, Ends(s), want'[s] # Lost
    PROVE  /\ out'[s].kind \in {"byte", "eof", "pos"}
           /\ out'[s].kind = "byte" => /\ want[s] # Lost /\ want[s] < Size
                                       /\ want'[s] = want[s] + 1 /\ out'[s].at = want[s]
           /\ out'[s].kind = "eof" => want[s] # Lost /\ want'[s] = want[s] /\ want[s] >= Size
           /\ out'[s].kind = "pos" => out'[s].at = want'[s]
  <1> USE DEF TypeOK, Abstract!Return, Abstract!Returns, Abstract!Lost, Lost
  <1>1. CASE Abstract!ReadByte(s)
    BY <1>1 DEF Abstract!ReadByte
  <1>2. CASE Abstract!ReadEof(s)
    BY <1>2 DEF Abstract!ReadEof
  <1>3. CASE Abstract!SeekTo(s)
    BY <1>3 DEF Abstract!SeekTo
  <1>4. CASE Abstract!Fail(s) \/ Abstract!Stray(s)
    BY <1>4 DEF Abstract!Fail, Abstract!Stray
  <1> QED BY <1>1, <1>2, <1>3, <1>4 DEF Ends

-----------------------------------------------------------------------------
LEMMA ReaderInitInv == ASSUME Sound, ReaderInit PROVE ReaderInv
  <1>1. IInv
    BY InitInv DEF ReaderInit
  <1>2. ReaderTypes
    BY DEF ReaderInit, ReaderTypes, Answers, NoAnswer
  <1>3. ASSUME NEW s \in Streams PROVE ReaderFits(s)
    BY DEF ReaderInit, Init, ReaderFits, StepFits, ResultFits, BytesFit, BitsFit, AnswerFits,
           InCall, Reading, Placing, Returned, NoAnswer
  <1> QED BY <1>1, <1>2, <1>3 DEF ReaderInv

(* The binding has called the stream, or the stream goes on with the call. *)
LEMMA AsksFits ==
    ASSUME TypeOK, ReaderTypes, NEW s \in Streams, ReaderFits(s), s \in python,
           python' = python, ~Returned(s), waiting'[s], answer'[s] = NoAnswer,
           buf'[s] = buf[s], bits'[s] = bits[s] \/ bits'[s] = {},
           Reading(s)' \/ Placing(s)',
           Reading(s)' => /\ Reading(s) /\ left'[s] = left[s] /\ doing'[s] = doing[s]
                          /\ AfterStep(s, ReadKinds, "read"),
           Placing(s)' => bits'[s] = {} /\ AfterStep(s, SeekKinds, "seek")
    PROVE  ReaderFits(s)'
  <1>1. doing'[s] # "none" /\ ~(Reading(s)' /\ Placing(s)')
    BY DEF Reading, Placing
  <1>2. doing'[s] = "read" => left'[s] \in Nat \ {0}
    BY DEF Reading, ReaderFits, StepFits
  <1>3. doing'[s] = "readall" => left'[s] = All
    BY DEF Reading, ReaderFits, StepFits
  <1>4. AnswerFits(s)'
    BY <1>1 DEF AnswerFits, NoAnswer
  <1>5. ASSUME UNCHANGED <<want, out>>, InCall(s)',
               Reading(s)' => op'[s] = "read", Placing(s)' => op'[s] = "seek"
        PROVE  ReaderFits(s)'
    <2>1. ~Returned(s)'
      BY <1>5 DEF Returned, InCall
    <2>2. StepFits(s)'
      BY <1>1, <1>2, <1>3, <1>5 DEF StepFits, InCall
    <2>3. ResultFits(s)' /\ BitsFit(s)'
      BY <1>5, <2>1 DEF ReaderFits, ResultFits, BitsFit
    <2>4. BytesFit(s)'
      BY <1>5, <2>1 DEF ReaderFits, BytesFit, NextByte
    <2> QED BY <1>4, <2>2, <2>3, <2>4 DEF ReaderFits
  <1>6. ASSUME Ends(s), pc'[s] = "idle", Reading(s)' => out'[s].kind \in ReadKinds,
               Placing(s)' => out'[s].kind \in SeekKinds
        PROVE  ReaderFits(s)'
    <2>1. StepFits(s)'
      BY <1>1, <1>2, <1>3, <1>6 DEF StepFits, InCall
    <2>2. ResultFits(s)'
      <3>1. ASSUME want'[s] # Lost
            PROVE  /\ out'[s].kind # "fail"
                   /\ out'[s].kind = "byte" => out'[s].at = want'[s] - 1
                   /\ out'[s].kind = "eof" => want'[s] >= Size
                   /\ out'[s].kind = "pos" => out'[s].at = want'[s]
        <4>1. want[s] \in Nat \cup {Lost}
          BY DEF TypeOK
        <4>2. /\ out'[s].kind \in {"byte", "eof", "pos"}
              /\ out'[s].kind = "byte" => /\ want[s] # Lost
                                          /\ want'[s] = want[s] + 1 /\ out'[s].at = want[s]
              /\ out'[s].kind = "eof" => want'[s] = want[s] /\ want[s] >= Size
              /\ out'[s].kind = "pos" => out'[s].at = want'[s]
          BY <1>6, <3>1, EndsTruly
        <4> QED BY <4>1, <4>2 DEF Lost
      <3> QED BY <1>6, <3>1 DEF ResultFits, ReadKinds, SeekKinds
    <2>3. BytesFit(s)'
      <3>1. ASSUME Reading(s)', want'[s] # Lost
            PROVE  want[s] # Lost /\ NextByte(s)' = want[s]
        <4>1. out'[s].kind \in {"byte", "eof"}
          BY <1>6, <3>1, EndsTruly DEF ReadKinds
        <4>2. want[s] # Lost /\ want[s] \in Nat
          BY <1>6, <3>1, <4>1, EndsTruly DEF TypeOK
        <4> QED BY <1>6, <3>1, <4>1, <4>2, EndsTruly DEF NextByte, Returned
      <3>2. NextByte(s) = want[s]
        BY DEF NextByte
      <3> QED BY <3>1, <3>2 DEF ReaderFits, BytesFit
    <2>4. BitsFit(s)'
      <3>1. ASSUME "eof" \in bits'[s], want'[s] # Lost PROVE want'[s] >= Size
        <4>1. Reading(s)'
          BY <3>1
        <4>2. want[s] # Lost => want[s] >= Size
          BY <3>1 DEF ReaderFits, BitsFit
        <4> QED BY <1>6, <3>1, <4>1, <4>2, EndsTruly, SizesAssumption DEF ReadKinds, TypeOK
      <3> QED BY <3>1 DEF ReaderFits, BitsFit
    <2> QED BY <1>4, <2>1, <2>2, <2>3, <2>4 DEF ReaderFits
  <1> QED BY <1>1, <1>5, <1>6 DEF AfterStep

(* A step of the stream inside one of its calls.                           *)
LEMMA StreamStepFits ==
    ASSUME Sound, ReaderInv, NEW s \in Streams, StreamStep(s)
    PROVE  ReaderTypes' /\ \A r \in Streams : ReaderFits(r)'
  <1>1. TypeOK /\ ReaderTypes /\ ReaderFits(s) /\ UNCHANGED reader /\ InCall(s)
    BY LoadGoesOn DEF ReaderInv, IInv, StreamStep
  <1>2. ReaderTypes'
    BY <1>1 DEF ReaderTypes, reader
  <1>3. \A r \in Streams \ {s} : ReaderFits(r)'
    BY <1>1, OthersSame, SameFits DEF ReaderInv, StreamStep, reader, ReaderSame
  <1>4. CASE s \notin python
    <2>1. doing[s] = "none" /\ answer[s] = NoAnswer /\ ~waiting[s] /\ bits[s] = {}
      BY <1>1, <1>4 DEF ReaderFits, StepFits
    <2>2. ReaderFits(s)'
      BY <1>1, <1>4, <2>1
      DEF reader, ReaderFits, StepFits, ResultFits, BytesFit, BitsFit, AnswerFits, Reading,
          Placing, Returned, NoAnswer
    <2> QED BY <1>2, <1>3, <2>2
  <1>5. CASE s \in python
    <2>1. waiting[s] /\ doing[s] # "none" /\ answer[s] = NoAnswer
      BY <1>1, <1>5 DEF ReaderFits, StepFits
    <2>2. ~Returned(s)
      BY <1>1 DEF Returned, InCall
    <2>3. /\ Reading(s) => AfterStep(s, ReadKinds, "read")
          /\ Placing(s) => AfterStep(s, SeekKinds, "seek")
      BY <1>1, LoadGoesOn DEF ReaderInv, StreamStep, ReaderFits, StepFits
    <2>4. Reading(s) \/ Placing(s)
      BY <1>1, <2>1 DEF ReaderTypes, Reading, Placing
    <2>5. Placing(s) => bits[s] = {}
      BY <1>1 DEF ReaderFits, BitsFit
    <2>6. /\ doing' = doing /\ waiting' = waiting /\ left' = left /\ buf' = buf
          /\ bits' = bits /\ answer' = answer /\ python' = python
          /\ (Reading(s)' <=> Reading(s)) /\ (Placing(s)' <=> Placing(s))
      BY <1>1 DEF reader, Reading, Placing
    <2>7. ReaderFits(s)'
      BY <1>1, <1>5, <2>1, <2>2, <2>3, <2>4, <2>5, <2>6, AsksFits
    <2> QED BY <1>2, <1>3, <2>7
  <1> QED BY <1>4, <1>5

-----------------------------------------------------------------------------
(* What a call of the binding changes is that reader's alone.              *)
LEMMA OtherReaders ==
    ASSUME ReaderInv, NEW s \in Streams, python' = python, Call(s) \/ UNCHANGED vars,
           \A r \in Streams \ {s} : ReaderSame(r)
    PROVE  \A r \in Streams \ {s} : ReaderFits(r)'
  <1> SUFFICES ASSUME NEW r \in Streams \ {s} PROVE ReaderFits(r)'
    OBVIOUS
  <1>1. StreamSame(r)
    BY OthersSame DEF ReaderInv, IInv, vars, StreamSame
  <1> QED BY <1>1, SameFits DEF ReaderInv

(* A call of Python's returns.                                             *)
LEMMA Answered ==
    ASSUME ReaderInv, NEW s \in python, NEW a \in Answers, NEW b \in SUBSET {"eof", "fail"},
           Answer(s, a, b), pc'[s] \in {"idle", "closed"}, Call(s) \/ UNCHANGED vars,
           "eof" \in b => "fail" \in b /\ (want'[s] # Lost => want'[s] >= Size),
           want'[s] # Lost /\ a.kind = "bytes" /\ b # {"fail"} =>
               /\ \A i \in DOMAIN a.bytes : a.bytes[i] = want'[s] - Len(a.bytes) + i - 1
               /\ Len(a.bytes) # a.asked => want'[s] >= Size,
           want'[s] # Lost /\ a.kind = "pos" /\ b = {} => a.bytes = <<want'[s]>>,
           a.kind = "bytes" /\ a.asked # All => Len(a.bytes) <= a.asked
    PROVE  ReaderTypes' /\ \A r \in Streams : ReaderFits(r)'
  <1>1. s \in Streams /\ ReaderTypes
    BY DEF ReaderInv, ReaderTypes
  <1>2. /\ doing'[s] = "none" /\ left'[s] = 0 /\ ~waiting'[s] /\ buf'[s] = << >>
        /\ answer'[s] = a /\ bits'[s] = b /\ python' = python
    BY <1>1 DEF Answer, Set, ReaderTypes
  <1>3. ReaderTypes'
    <2>1. << >> \in Seq(Int)
      OBVIOUS
    <2> QED BY <1>1, <2>1 DEF Answer, Set, ReaderTypes
  <1>4. \A r \in Streams \ {s} : ReaderSame(r)
    BY <1>1 DEF Answer, Set, ReaderTypes, ReaderSame
  <1>5. StepFits(s)' /\ ResultFits(s)' /\ BytesFit(s)' /\ BitsFit(s)'
    BY <1>1, <1>2 DEF StepFits, ResultFits, BytesFit, BitsFit, Reading, Placing, InCall, Returned
  <1>6. AnswerFits(s)'
    BY <1>2 DEF AnswerFits
  <1> QED BY <1>1, <1>2, <1>3, <1>4, <1>5, <1>6, OtherReaders DEF ReaderFits

(* One begins, and has not called the stream yet.                          *)
LEMMA Begun ==
    ASSUME ReaderInv, NEW s \in python, NEW what \in {"read", "readall", "tell"},
           NEW n \in Nat \cup {All}, Idle(s), Begin(s, what, n),
           what = "read" => n \in Nat \ {0}, what = "readall" => n = All,
           what = "tell" => bits[s] = {}
    PROVE  ReaderTypes' /\ \A r \in Streams : ReaderFits(r)'
  <1>1. s \in Streams /\ ReaderTypes /\ ReaderFits(s)
    BY DEF ReaderInv, ReaderTypes
  <1>2. /\ doing'[s] = what /\ left'[s] = n /\ waiting'[s] = waiting[s] /\ buf'[s] = buf[s]
        /\ answer'[s] = NoAnswer /\ bits'[s] = bits[s] /\ python' = python
    BY <1>1 DEF Begin, Set, ReaderTypes
  <1>3. ~waiting[s] /\ buf[s] = << >>
    BY <1>1 DEF ReaderFits, StepFits, Idle
  <1>4. UNCHANGED vars /\ pc'[s] = "idle" /\ want'[s] = want[s]
    BY DEF Begin, vars, Idle
  <1>5. NoAnswer \in Answers
    BY DEF NoAnswer, Answers
  <1>6. ReaderTypes'
    BY <1>1, <1>5 DEF Begin, Set, ReaderTypes
  <1>7. \A r \in Streams \ {s} : ReaderSame(r)
    BY <1>1 DEF Begin, Set, ReaderTypes, ReaderSame
  <1>8. StepFits(s)' /\ ResultFits(s)'
    BY <1>1, <1>2, <1>3, <1>4 DEF StepFits, ResultFits, InCall, Returned
  <1>9. BytesFit(s)' /\ AnswerFits(s)'
    BY <1>2, <1>3 DEF BytesFit, AnswerFits, NoAnswer
  <1>10. BitsFit(s)'
    BY <1>1, <1>2, <1>4 DEF ReaderFits, BitsFit, Placing
  <1> QED BY <1>1, <1>2, <1>4, <1>6, <1>7, <1>8, <1>9, <1>10, OtherReaders DEF ReaderFits

-----------------------------------------------------------------------------
LEMMA EmptySeq == << >> \in Seq(Int)
  OBVIOUS

LEMMA PositionIsAnswer ==
    ASSUME NEW p \in Int
    PROVE  Position(p) \in Answers /\ Position(p).kind = "pos" /\ Position(p).bytes = <<p>>
  <1>1. <<p>> \in Seq(Int)
    OBVIOUS
  <1> QED BY <1>1 DEF Position, Answers

(* Python's calls.                                                         *)
LEMMA CallFits ==
    ASSUME Sound, ReaderInv, NEW s \in Streams, PythonCall(s)
    PROVE  ReaderTypes' /\ \A r \in Streams : ReaderFits(r)'
  <1>1. TypeOK /\ ReaderTypes /\ ReaderFits(s) /\ s \in python
    BY DEF PythonCall, ReaderInv, IInv
  <1>2. bits[s] \in SUBSET {"eof", "fail"} /\ BitsFit(s)
    BY <1>1 DEF ReaderTypes, ReaderFits
  <1>3. CASE OpenReader(s)
    <2>1. Open(s) /\ UNCHANGED reader /\ pc[s] = "closed" /\ pc'[s] = "idle"
      BY <1>1, <1>3 DEF OpenReader, Open, Set, TypeOK
    <2>2. doing[s] = "none" /\ ~waiting[s]
      BY <1>1, <2>1 DEF ReaderFits, StepFits
    <2>3. want' = want
      BY <2>1 DEF Open
    <2>4. ReaderTypes'
      BY <1>1, <2>1 DEF ReaderTypes, reader
    <2>5. ReaderFits(s)'
      BY <1>1, <2>1, <2>2, <2>3
      DEF reader, ReaderFits, StepFits, ResultFits, BytesFit, BitsFit, AnswerFits, Reading,
          Placing, Returned, InCall
    <2>6. python' = python /\ \A r \in Streams \ {s} : ReaderSame(r)
      BY <2>1 DEF reader, ReaderSame
    <2> QED BY <2>1, <2>4, <2>5, <2>6, OtherReaders DEF Call
  <1>4. CASE CloseReader(s)
    <2>1. Close(s) /\ Answer(s, NoAnswer, {}) /\ pc'[s] = "closed"
      BY <1>1, <1>4 DEF CloseReader, Close, Set, TypeOK
    <2>2. PICK a \in Answers : a = NoAnswer
      BY EmptySeq DEF NoAnswer, Answers
    <2>3. PICK b \in SUBSET {"eof", "fail"} : b = {}
      OBVIOUS
    <2> QED BY <1>1, <2>1, <2>2, <2>3, Answered DEF Call, NoAnswer
  <1>5. ASSUME NEW n \in Counts, Read(s, n)
        PROVE  ReaderTypes' /\ \A r \in Streams : ReaderFits(r)'
    <2>0. n \in Nat \ {0}
      BY CountsAssumption
    <2>1. CASE bits[s] = {} /\ Begin(s, "read", n)
      BY <1>1, <1>5, <2>0, <2>1, Begun DEF Read
    <2>2. CASE bits[s] # {} /\ Answer(s, Bytes(<< >>, n), bits[s] \cup {"fail"}) /\ UNCHANGED vars
      <3>1. PICK a \in Answers : a = Bytes(<< >>, n)
        BY <2>0, EmptySeq DEF Bytes, Answers
      <3>2. PICK b \in SUBSET {"eof", "fail"} : b = bits[s] \cup {"fail"}
        BY <1>2
      <3>3. pc'[s] = "idle" /\ want'[s] = want[s]
        BY <1>5, <2>2 DEF Read, Idle, vars
      <3>4. "eof" \in b \/ b = {"fail"}
        BY <3>2
      <3>5. a.kind = "bytes" /\ a.bytes = << >> /\ a.asked = n
        BY <3>1 DEF Bytes
      <3>6. "eof" \in b => "fail" \in b /\ (want'[s] # Lost => want'[s] >= Size)
        BY <1>2, <3>2, <3>3 DEF BitsFit
      <3>7. /\ want'[s] # Lost /\ b # {"fail"} => want'[s] >= Size
            /\ DOMAIN a.bytes = {} /\ Len(a.bytes) = 0
        BY <3>4, <3>5, <3>6
      <3>8. Answer(s, a, b)
        BY <2>2, <3>1, <3>2 DEF Answer, Set
      <3> QED BY <1>1, <2>0, <2>2, <3>3, <3>5, <3>6, <3>7, <3>8, Answered
    <2> QED BY <1>5, <2>1, <2>2 DEF Read
  <1>6. CASE ReadAll(s)
    BY <1>1, <1>6, Begun DEF ReadAll
  <1>7. CASE Seek(s)
    <2>1. /\ pc[s] = "idle" /\ doing[s] = "none" /\ ~waiting[s] /\ buf[s] = << >> /\ left[s] = 0
          /\ "eof" \notin bits[s] /\ Call(s) /\ AfterStep(s, SeekKinds, "seek")
      BY <1>1, <1>7, SeekBegins DEF Seek, Idle, ReaderFits, StepFits, BitsFit, Call, ReaderInv
    <2>2. /\ doing'[s] = "seek" /\ waiting'[s] /\ bits'[s] = {} /\ answer'[s] = NoAnswer
          /\ python' = python /\ left' = left /\ buf' = buf
      BY <1>1, <1>7 DEF Seek, Set, ReaderTypes
    <2>3. ReaderTypes'
      BY <1>1, <1>7 DEF Seek, Set, ReaderTypes, NoAnswer, Answers
    <2>4. \A r \in Streams \ {s} : ReaderSame(r)
      BY <1>1, <1>7 DEF Seek, Set, ReaderTypes, ReaderSame
    <2>5. ~Returned(s) /\ Placing(s)' /\ ~Reading(s)'
      BY <2>1, <2>2 DEF Returned, Placing, Reading
    <2>6. ReaderFits(s)'
      BY <1>1, <2>1, <2>2, <2>5, AsksFits
    <2> QED BY <2>1, <2>2, <2>3, <2>4, <2>6, OtherReaders
  <1>8. CASE SeekRefused(s)
    <2>1. PICK a \in Answers : a = Raises
      BY EmptySeq DEF Raises, Answers
    <2>2. PICK b \in SUBSET {"eof", "fail"} : b = {"fail"}
      OBVIOUS
    <2>3. Answer(s, a, b) /\ UNCHANGED vars /\ pc'[s] = "idle"
      BY <1>8, <2>1, <2>2 DEF SeekRefused, Idle, vars
    <2> QED BY <1>1, <2>1, <2>2, <2>3, Answered DEF Raises
  <1>9. CASE Tell(s)
    <2>1. CASE bits[s] = {} /\ Begin(s, "tell", 0)
      BY <1>1, <1>9, <2>1, Begun DEF Tell
    <2>2. CASE bits[s] # {} /\ Answer(s, Position(Minus1), bits[s] \cup {"fail"}) /\ UNCHANGED vars
      <3>1. PICK a \in Answers : a = Position(Minus1)
        BY PositionIsAnswer DEF Minus1
      <3>2. PICK b \in SUBSET {"eof", "fail"} : b = bits[s] \cup {"fail"}
        BY <1>2
      <3>3. pc'[s] = "idle" /\ want'[s] = want[s]
        BY <1>9, <2>2 DEF Tell, Idle, vars
      <3>4. "eof" \in b => "fail" \in b /\ (want'[s] # Lost => want'[s] >= Size)
        BY <1>2, <3>2, <3>3 DEF BitsFit
      <3>5. a.kind = "pos" /\ b # {} /\ Answer(s, a, b)
        BY <2>2, <3>1, <3>2 DEF Position, Answer, Set
      <3> QED BY <1>1, <2>2, <3>3, <3>4, <3>5, Answered
    <2> QED BY <1>9, <2>1, <2>2 DEF Tell
  <1> QED BY <1>3, <1>4, <1>5, <1>6, <1>7, <1>8, <1>9 DEF PythonCall

-----------------------------------------------------------------------------
(* What the binding does between the calls of the stream.                  *)
LEMMA PullFits ==
    ASSUME Sound, ReaderInv, NEW s \in Streams, Pull(s) \/ TellAsk(s)
    PROVE  ReaderTypes' /\ \A r \in Streams : ReaderFits(r)'
  <1>1. TypeOK /\ ReaderTypes /\ ReaderFits(s) /\ IInv
    BY DEF ReaderInv, IInv
  <1>2. s \in python /\ ~Returned(s) /\ answer[s] = NoAnswer
    BY <1>1 DEF Pull, TellAsk, Returned, ReaderFits, StepFits
  <1>3. /\ waiting'[s] /\ doing' = doing /\ left' = left /\ buf' = buf /\ bits' = bits
        /\ answer' = answer /\ python' = python
        /\ (Reading(s)' <=> Reading(s)) /\ (Placing(s)' <=> Placing(s))
    BY <1>1 DEF Pull, TellAsk, Set, ReaderTypes, Reading, Placing
  <1>4. ReaderTypes'
    BY <1>1 DEF Pull, TellAsk, Set, ReaderTypes
  <1>5. \A r \in Streams \ {s} : ReaderSame(r)
    BY <1>1 DEF Pull, TellAsk, Set, ReaderTypes, ReaderSame
  <1>6. /\ Call(s)
        /\ Pull(s) => Reading(s) /\ ~Placing(s) /\ AfterStep(s, ReadKinds, "read")
        /\ TellAsk(s) => Placing(s) /\ ~Reading(s) /\ AfterStep(s, SeekKinds, "seek")
    BY <1>1, TellAssumption, ReadBegins, SeekBegins DEF Pull, TellAsk, Call, Reading, Placing
  <1>7. Placing(s) => bits[s] = {}
    BY <1>1 DEF ReaderFits, BitsFit
  <1>8. ReaderFits(s)'
    BY <1>1, <1>2, <1>3, <1>6, <1>7, AsksFits
  <1> QED BY <1>3, <1>4, <1>5, <1>6, <1>8, OtherReaders

LEMMA TakeFits ==
    ASSUME ReaderInv, NEW s \in Streams, Take(s)
    PROVE  ReaderTypes' /\ \A r \in Streams : ReaderFits(r)'
  <1>1. TypeOK /\ ReaderTypes /\ ReaderFits(s)
    BY DEF ReaderInv, IInv
  <1>2. Reading(s) /\ Returned(s) /\ out[s].kind = "byte" /\ s \in python /\ UNCHANGED vars
    BY <1>1 DEF Take, Reading, Returned, ReaderFits, StepFits
  <1>3. want' = want /\ out' = out /\ pc' = pc /\ pc[s] = "idle"
    BY <1>2 DEF vars, Returned
  <1>4. PICK b : b = Append(buf[s], out[s].at)
    OBVIOUS
  <1>5. buf[s] \in Seq(Int) /\ out[s].at \in Int /\ b \in Seq(Int) /\ Len(b) = Len(buf[s]) + 1
    BY <1>1, <1>4 DEF ReaderTypes, TypeOK
  <1>6. want[s] # Lost => \A i \in DOMAIN b : b[i] = want[s] - Len(b) + i - 1
    <2>1. SUFFICES ASSUME want[s] # Lost, NEW i \in DOMAIN b
                   PROVE  b[i] = want[s] - Len(b) + i - 1
      OBVIOUS
    <2>2. want[s] \in Nat /\ NextByte(s) = want[s] - 1 /\ out[s].at = want[s] - 1
      BY <1>1, <1>2, <2>1 DEF TypeOK, NextByte, ReaderFits, ResultFits
    <2>3. CASE i = Len(b)
      BY <1>4, <1>5, <2>2, <2>3
    <2>4. CASE i # Len(b)
      <3>1. i \in DOMAIN buf[s] /\ b[i] = buf[s][i]
        BY <1>4, <1>5, <2>1, <2>4
      <3>2. \A j \in DOMAIN buf[s] : buf[s][j] = NextByte(s) - Len(buf[s]) + j - 1
        BY <1>1, <1>2, <2>1 DEF ReaderFits, BytesFit
      <3>3. i \in Int /\ Len(buf[s]) \in Int
        BY <1>5, <2>1
      <3>4. b[i] = (want[s] - 1) - Len(buf[s]) + i - 1
        BY <2>2, <3>1, <3>2
      <3>5. Len(b) = Len(buf[s]) + 1 /\ want[s] \in Int
        BY <1>5, <2>2
      <3>6. PICK w \in Int, l \in Int : w = want[s] /\ l = Len(buf[s])
        BY <3>3, <3>5
      <3>7. b[i] = (w - 1) - l + i - 1 /\ Len(b) = l + 1
        BY <3>4, <3>5, <3>6
      <3>8. (w - 1) - l + i - 1 = w - (l + 1) + i - 1
        BY <3>3
      <3>9. b[i] = w - Len(b) + i - 1
        BY <3>7, <3>8, Zenon
      <3> QED BY <3>6, <3>9
    <2> QED BY <2>3, <2>4
  <1>7. CASE left[s] = 1
    <2>1. doing[s] = "read" /\ Asked(s) = Len(b) /\ Len(b) \in Nat
      BY <1>1, <1>2, <1>5, <1>7 DEF Asked, Reading, ReaderFits, StepFits, All
    <2>2. PICK a \in Answers : a = Bytes(b, Len(b))
      BY <1>5, <2>1 DEF Bytes, Answers
    <2>3. PICK c \in SUBSET {"eof", "fail"} : c = bits[s]
      BY <1>1 DEF ReaderTypes
    <2>4. a.kind = "bytes" /\ a.bytes = b /\ a.asked = Len(b)
      BY <2>2 DEF Bytes
    <2>5. Answer(s, a, c)
      BY <1>4, <1>7, <2>1, <2>2, <2>3 DEF Take, Answer, Set
    <2>6. "eof" \in c => "fail" \in c /\ (want'[s] # Lost => want'[s] >= Size)
      BY <1>1, <1>3, <2>3 DEF ReaderFits, BitsFit
    <2> QED BY <1>2, <1>3, <1>6, <2>1, <2>4, <2>5, <2>6, Answered
  <1>8. CASE left[s] # 1
    <2>1. /\ buf' = [buf EXCEPT ![s] = b]
          /\ left' = [left EXCEPT ![s] = IF left[s] = All THEN All ELSE left[s] - 1]
          /\ waiting' = [waiting EXCEPT ![s] = FALSE]
          /\ python' = python /\ bits' = bits /\ doing' = doing /\ answer' = answer
      BY <1>4, <1>8 DEF Take, Set
    <2>2. /\ doing[s] = "read" => left[s] \in Nat \ {0, 1}
          /\ doing[s] = "readall" => left[s] = All
          /\ answer[s] = NoAnswer /\ doing[s] # "none"
      BY <1>1, <1>2, <1>8 DEF ReaderFits, StepFits, Reading
    <2>3. ReaderTypes'
      <3>1. left' \in [Streams -> Nat \cup {All}]
        <4>1. (IF left[s] = All THEN All ELSE left[s] - 1) \in Nat \cup {All}
          BY <1>2, <2>2 DEF Reading, All
        <4> QED BY <1>1, <2>1, <4>1 DEF ReaderTypes
      <3>2. buf' \in [Streams -> Seq(Int)]
        BY <1>1, <1>5, <2>1 DEF ReaderTypes
      <3> QED BY <1>1, <2>1, <3>1, <3>2 DEF ReaderTypes
    <2>4. \A r \in Streams \ {s} : ReaderSame(r)
      BY <1>1, <2>1 DEF ReaderTypes, ReaderSame
    <2>5. buf'[s] = b /\ ~waiting'[s] /\ (Reading(s)' <=> Reading(s)) /\ ~Placing(s)'
      BY <1>1, <1>2, <2>1 DEF ReaderTypes, Reading, Placing
    <2>6. StepFits(s)'
      <3>1. left'[s] = (IF left[s] = All THEN All ELSE left[s] - 1)
        BY <1>1, <2>1 DEF ReaderTypes
      <3>2. /\ doing'[s] = "read" => left'[s] \in Nat \ {0}
            /\ doing'[s] = "readall" => left'[s] = All
        BY <2>1, <2>2, <3>1 DEF All
      <3> QED BY <1>2, <1>3, <2>1, <2>2, <2>5, <3>2 DEF StepFits, InCall
    <2>7. ResultFits(s)' /\ AnswerFits(s)'
      BY <2>1, <2>2, <2>5 DEF ResultFits, Returned, AnswerFits, NoAnswer
    <2>8. BytesFit(s)'
      BY <1>3, <1>6, <2>5 DEF BytesFit, NextByte, Returned
    <2>9. BitsFit(s)'
      BY <1>1, <1>3, <2>1, <2>5 DEF ReaderFits, BitsFit
    <2> QED BY <1>2, <2>1, <2>3, <2>4, <2>6, <2>7, <2>8, <2>9, OtherReaders DEF ReaderFits
  <1> QED BY <1>7, <1>8

LEMMA TakeEndFits ==
    ASSUME ReaderInv, NEW s \in Streams, TakeEnd(s)
    PROVE  ReaderTypes' /\ \A r \in Streams : ReaderFits(r)'
  <1>1. TypeOK /\ ReaderTypes /\ ReaderFits(s)
    BY DEF ReaderInv, IInv
  <1>2. Reading(s) /\ Returned(s) /\ out[s].kind \in {"eof", "fail"} /\ s \in python
    BY <1>1 DEF TakeEnd, Reading, Returned, ReaderFits, StepFits
  <1>3. want' = want /\ pc' = pc /\ pc[s] = "idle" /\ UNCHANGED vars
    BY <1>2 DEF vars, Returned, TakeEnd
  <1>4. buf[s] \in Seq(Int) /\ Len(buf[s]) \in Nat
    BY <1>1 DEF ReaderTypes
  <1>5. /\ Asked(s) \in Nat \cup {All}
        /\ Asked(s) # All => Len(buf[s]) <= Asked(s)
    BY <1>1, <1>2, <1>4 DEF Asked, Reading, ReaderFits, StepFits
  <1>6. PICK n \in Nat \cup {All} : n = Asked(s)
    BY <1>5
  <1>7. PICK a \in Answers : a = Bytes(buf[s], n)
    BY <1>4 DEF Bytes, Answers
  <1>8. a.kind = "bytes" /\ a.bytes = buf[s] /\ a.asked = n
    BY <1>7 DEF Bytes
  <1>9. PICK c \in SUBSET {"eof", "fail"} :
            c = bits[s] \cup (IF doing[s] = "read" THEN {"eof", "fail"} ELSE {})
    BY <1>1 DEF ReaderTypes
  <1>10. Answer(s, a, c)
    BY <1>6, <1>7, <1>9 DEF TakeEnd, Answer, Set
  <1>11. want[s] # Lost => want[s] >= Size /\ NextByte(s) = want[s]
    BY <1>1, <1>2 DEF ReaderFits, ResultFits, NextByte
  <1>12. want[s] # Lost => \A i \in DOMAIN buf[s] : buf[s][i] = want[s] - Len(buf[s]) + i - 1
    BY <1>1, <1>2, <1>11 DEF ReaderFits, BytesFit
  <1>13. "eof" \in c => "fail" \in c
    BY <1>1, <1>9 DEF ReaderFits, BitsFit
  <1> QED BY <1>2, <1>3, <1>5, <1>6, <1>8, <1>10, <1>11, <1>12, <1>13, Answered

LEMMA SeekEndFits ==
    ASSUME ReaderInv, NEW s \in Streams, SeekEnd(s)
    PROVE  ReaderTypes' /\ \A r \in Streams : ReaderFits(r)'
  <1>1. TypeOK /\ ReaderTypes /\ ReaderFits(s)
    BY DEF ReaderInv, IInv
  <1>2. /\ doing[s] = "seek" /\ Returned(s) /\ s \in python /\ UNCHANGED vars /\ bits[s] = {}
        /\ answer[s] = NoAnswer
    BY <1>1 DEF SeekEnd, Placing, ReaderFits, StepFits, BitsFit
  <1>3. pc' = pc /\ pc[s] = "idle" /\ want' = want
    BY <1>2 DEF vars, Returned
  <1>4. CASE Answer(s, Raises, {"fail"})
    <2>1. PICK a \in Answers : a = Raises
      BY EmptySeq DEF Raises, Answers
    <2>2. PICK b \in SUBSET {"eof", "fail"} : b = {"fail"}
      OBVIOUS
    <2>3. Answer(s, a, b)
      BY <1>4, <2>1, <2>2
    <2> QED BY <1>2, <1>3, <2>1, <2>2, <2>3, Answered DEF Raises
  <1>5. CASE /\ Set(doing, s, "tell") /\ Set(waiting, s, FALSE)
             /\ UNCHANGED <<python, bits, left, buf, answer>>
    <2>1. /\ doing'[s] = "tell" /\ ~waiting'[s] /\ python' = python /\ bits' = bits
          /\ left' = left /\ buf' = buf /\ answer' = answer
      BY <1>1, <1>5 DEF Set, ReaderTypes
    <2>2. ReaderTypes'
      BY <1>1, <1>5 DEF Set, ReaderTypes
    <2>3. \A r \in Streams \ {s} : ReaderSame(r)
      BY <1>1, <1>5 DEF Set, ReaderTypes, ReaderSame
    <2>4. ReaderFits(s)'
      BY <1>2, <1>3, <2>1
      DEF ReaderFits, StepFits, ResultFits, BytesFit, BitsFit, AnswerFits, NoAnswer, Reading,
          Placing, Returned, InCall
    <2> QED BY <1>2, <2>1, <2>2, <2>3, <2>4, OtherReaders
  <1> QED BY <1>4, <1>5 DEF SeekEnd

LEMMA TellEndFits ==
    ASSUME ReaderInv, NEW s \in Streams, TellEnd(s)
    PROVE  ReaderTypes' /\ \A r \in Streams : ReaderFits(r)'
  <1>1. TypeOK /\ ReaderTypes /\ ReaderFits(s)
    BY DEF ReaderInv, IInv
  <1>2. /\ Placing(s) /\ Returned(s) /\ s \in python /\ UNCHANGED vars /\ bits[s] = {}
    BY <1>1 DEF TellEnd, Placing, ReaderFits, StepFits, BitsFit
  <1>3. pc' = pc /\ pc[s] = "idle" /\ want' = want
    BY <1>2 DEF vars, Returned
  <1>4. PICK p \in Int : p = IF out[s].kind = "pos" THEN out[s].at ELSE Minus1
    <2>1. out[s].at \in Int /\ Minus1 \in Int
      BY <1>1 DEF TypeOK, Minus1
    <2> QED BY <2>1
  <1>5. PICK a \in Answers : a = Position(p)
    BY PositionIsAnswer
  <1>6. a.kind = "pos" /\ a.bytes = <<p>>
    BY <1>5, PositionIsAnswer
  <1>7. PICK b \in SUBSET {"eof", "fail"} : b = {}
    OBVIOUS
  <1>8. Answer(s, a, b)
    BY <1>2, <1>4, <1>5, <1>7 DEF TellEnd, Answer, Set
  <1>9. want'[s] # Lost => p = want'[s]
    BY <1>1, <1>2, <1>3, <1>4 DEF ReaderFits, ResultFits
  <1> QED BY <1>2, <1>3, <1>6, <1>7, <1>8, <1>9, Answered

-----------------------------------------------------------------------------
(* Every step keeps the invariant.                                         *)
LEMMA ReaderNextInv == ASSUME Sound, ReaderInv, [ReaderNext]_readerVars PROVE ReaderInv'
  <1>1. IInv'
    BY PythonIsCaller, NextInv DEF ReaderInv
  <1>2. TypeOK /\ ReaderTypes
    BY DEF ReaderInv, IInv
  <1>3. ASSUME UNCHANGED reader, UNCHANGED <<pc, op, want, out>>
        PROVE  ReaderTypes' /\ \A r \in Streams : ReaderFits(r)'
    BY <1>2, <1>3, SameFits DEF ReaderInv, ReaderTypes, reader, ReaderSame, StreamSame
  <1>4. CASE UNCHANGED readerVars \/ (Configure /\ UNCHANGED reader)
    <2>1. UNCHANGED reader /\ UNCHANGED <<pc, op, want, out>>
      BY <1>4 DEF readerVars, vars, Configure
    <2> QED BY <1>1, <1>3, <2>1 DEF ReaderInv
  <1>5. ASSUME NEW s \in Streams, CppCall(s)
        PROVE  ReaderTypes' /\ \A r \in Streams : ReaderFits(r)'
    <2>1. ReaderTypes'
      BY <1>2, <1>5 DEF CppCall, ReaderTypes, reader
    <2>2. python' = python /\ Call(s) /\ \A r \in Streams \ {s} : ReaderSame(r)
      BY <1>5 DEF CppCall, reader, ReaderSame
    <2>3. s \notin python /\ doing[s] = "none" /\ answer[s] = NoAnswer /\ ~waiting[s]
          /\ bits[s] = {} /\ left[s] = 0 /\ buf[s] = << >>
      BY <1>5 DEF CppCall, ReaderInv, ReaderFits, StepFits
    <2>4. ReaderFits(s)'
      BY <1>5, <2>3
      DEF CppCall, reader, ReaderFits, StepFits, ResultFits, BytesFit, BitsFit, AnswerFits,
          Reading, Placing, Returned, NoAnswer
    <2> QED BY <2>1, <2>2, <2>4, OtherReaders
  <1>6. ASSUME NEW s \in Streams, Inside(s)
        PROVE  ReaderTypes' /\ \A r \in Streams : ReaderFits(r)'
    BY <1>6, PullFits, TakeFits, TakeEndFits, SeekEndFits, TellEndFits DEF Inside
  <1>7. CASE Die
    <2>1. ReaderTypes'
      BY <1>2, <1>7, EmptySeq DEF Die, ReaderTypes, NoAnswer, Answers
    <2>2. ASSUME NEW s \in Streams PROVE ReaderFits(s)'
      BY <1>7
      DEF Die, Crash, ReaderFits, StepFits, ResultFits, BytesFit, BitsFit, AnswerFits,
          Reading, Placing, Returned, InCall, NoAnswer
    <2> QED BY <1>1, <2>1, <2>2 DEF ReaderInv
  <1> QED BY <1>1, <1>4, <1>5, <1>6, <1>7, CallFits, StreamStepFits DEF ReaderInv, ReaderNext

LEMMA ReaderInvHolds == Sound => (ReaderSpec => []ReaderInv)
  <1> SUFFICES ASSUME Sound PROVE ReaderSpec => []ReaderInv
    OBVIOUS
  <1>1. ReaderInit => ReaderInv
    BY ReaderInitInv
  <1>2. ReaderInv /\ [ReaderNext]_readerVars => ReaderInv'
    BY ReaderNextInv
  <1> QED BY <1>1, <1>2, PTL DEF ReaderSpec

(* The binding's state has its types, the stream is inside a call only     *)
(* when the binding waits for it, and a read never returns more bytes than *)
(* were asked for: read() and read(n) of bindings.cpp.                     *)
THEOREM ReaderTypeCorrect == Sound => (ReaderSpec => []ReaderTypeOK)
  <1>1. ReaderInv => ReaderTypeOK
    <2> SUFFICES ASSUME ReaderInv PROVE ReaderTypeOK
      OBVIOUS
    <2>1. TypeOK /\ ReaderTypes
      BY DEF ReaderInv, IInv
    <2>2. ASSUME NEW s \in Streams
          PROVE  /\ s \in python /\ InCall(s) => waiting[s]
                 /\ waiting[s] => doing[s] # "none"
                 /\ answer[s].kind = "bytes" /\ answer[s].asked # All =>
                        Len(answer[s].bytes) <= answer[s].asked
      BY DEF ReaderInv, ReaderFits, StepFits, AnswerFits
    <2> QED BY <2>1, <2>2 DEF ReaderTypeOK, ReaderTypes
  <1> QED BY <1>1, ReaderInvHolds, PTL

(* While no request has failed and no call has raised, what read(), seek() *)
(* and tell() of the binding return is the object's: the bytes from the    *)
(* caller's position on, all it asked for or all there are, and that       *)
(* position.                                                               *)
THEOREM AnswersAreTheObjects == Sound => (ReaderSpec => []AnswersAreTrue)
  <1>1. ReaderInv => AnswersAreTrue
    BY DEF ReaderInv, ReaderFits, AnswerFits, AnswersAreTrue
  <1> QED BY <1>1, ReaderInvHolds, PTL

(* What is proved of the streams holds of those under Python readers too:  *)
(* they are cursors over the object, use the cache as specified, and their *)
(* end of file is the end.                                                 *)
THEOREM StreamsUnderReaders ==
    Sound => (ReaderSpec => ReadsTheObject /\ UsesTheCache /\ []EofMeansEnd)
  BY ReadersAreCallers, StreamsReadTheObject, CacheIsUsedAsSpecified, EndOfFileIsTheEnd, PTL
=============================================================================
