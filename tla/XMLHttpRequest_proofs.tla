------------------------- MODULE XMLHttpRequest_proofs -------------------------
(***************************************************************************)
(* Proofs about XMLHttpRequest, for every number of requests and every     *)
(* depth of calls within calls.  The first half holds for programs that    *)
(* reuse the object in every way the code allows; the second half, from    *)
(* "One request at a time" on, is under OneAtATime, and up to a late throw *)
(* of a listener.                                                          *)
(***************************************************************************)
EXTENDS XMLHttpRequest, SequenceTheorems, TLAPS

-----------------------------------------------------------------------------
(* The call stack. *)

LEMMA OpsTypes ==
    /\ \A e \in Events : Fire(e) \in Ops /\ FireUpload(e) \in Ops
    /\ \A e \in Failures : FailUpload(e) \in Ops
    /\ \A s \in {"startUpload", "request", "readLength", "setDone"} : Statement(s) \in Ops
BY DEF Ops

LEMMA FailUploadType ==
    ASSUME NEW op \in Ops, op[1] = "failUpload"
    PROVE  op[2] \in Failures
<1>1. ASSUME NEW e \in Events, op = Fire(e) \/ op = FireUpload(e)
      PROVE  FALSE
  BY <1>1 DEF Fire, FireUpload
<1>2. ASSUME NEW s \in {"startUpload", "request", "readLength", "setDone"},
             op = Statement(s)
      PROVE  FALSE
  BY <1>2 DEF Statement
<1>3. ASSUME NEW e \in Failures, op = FailUpload(e)
      PROVE  op[2] \in Failures
  BY <1>3 DEF FailUpload
<1>. QED
  BY <1>1, <1>2, <1>3 DEF Ops

\* Every run the methods begin with.
LEMMA RunTypes ==
    /\ <<Fire("readystatechange")>> \in Seq(Ops)
    /\ <<Fire("loadstart"), Statement("startUpload"), Statement("request")>> \in Seq(Ops)
    /\ \A e \in Failures :
         <<Fire("readystatechange"), FailUpload(e), Fire(e), Fire("loadend")>> \in Seq(Ops)
    /\ <<FireUpload("progress")>> \in Seq(Ops)
    /\ <<FireUpload("progress"), FireUpload("load"), FireUpload("loadend")>> \in Seq(Ops)
    /\ <<Fire("readystatechange"), Statement("readLength")>> \in Seq(Ops)
    /\ <<Fire("readystatechange"), Fire("progress")>> \in Seq(Ops)
    /\ <<Fire("progress"), Statement("setDone"), Fire("readystatechange"),
         Fire("load"), Fire("loadend")>> \in Seq(Ops)
    /\ <<FireUpload("loadstart")>> \in Seq(Ops)
    /\ \A e \in Failures : <<FireUpload(e), FireUpload("loadend")>> \in Seq(Ops)
BY OpsTypes DEF Events, Endings, Failures

StackOK == /\ stack \in Seq(Frames)
           /\ log \in [Requests -> Seq(Endings)]
           /\ uploadLog \in [Requests -> Seq(Endings)]

LEMMA LogType ==
    ASSUME NEW l \in [Requests -> Seq(Endings)], NEW r, NEW op, NEW kind
    PROVE  Log(l, r, op, kind) \in [Requests -> Seq(Endings)]
BY DEF Log

LEMMA DispatchTypes ==
    ASSUME StackOK, NEW op, NEW r, Dispatch(op, r)
    PROVE  /\ log' \in [Requests -> Seq(Endings)]
           /\ uploadLog' \in [Requests -> Seq(Endings)]
BY LogType DEF Dispatch, StackOK

LEMMA PushTypes ==
    ASSUME StackOK, NEW run \in Seq(Ops), run # <<>>,
           NEW r \in 0..MaxSends, NEW by \in Callers, Push(run, r, by)
    PROVE  StackOK'
<1>1. [run |-> Tail(run), req |-> r, by |-> by] \in Frames
  BY DEF Frames
<1>2. stack' \in Seq(Frames)
  BY <1>1 DEF Push, StackOK
<1>. QED
  BY <1>2, DispatchTypes DEF Push, StackOK

LEMMA TopType ==
    ASSUME StackOK, stack # <<>>
    PROVE  /\ Top \in Frames
           /\ Top.run \in Seq(Ops) /\ Top.req \in 0..MaxSends /\ Top.by \in Callers
           /\ Tail(stack) \in Seq(Frames)
<1>1. Top \in Frames /\ Tail(stack) \in Seq(Frames)
  BY DEF StackOK, Top
<1>. QED
  BY <1>1 DEF Frames

LEMMA ContinueTypes ==
    ASSUME StackOK, stack # <<>>, NEW run \in Seq(Ops), Continue(run)
    PROVE  StackOK'
<1>1. CASE run = <<>>
  BY <1>1, TopType DEF Continue, StackOK
<1>2. CASE run # <<>>
  <2>1. [Top EXCEPT !.run = Tail(run)] \in Frames
    <3>1. Tail(run) \in Seq(Ops)
      BY <1>2
    <3>. QED
      BY <3>1, TopType DEF Frames
  <2>2. \A f \in Frames : <<f>> \o Tail(stack) \in Seq(Frames)
    BY TopType
  <2>3. stack' \in Seq(Frames)
    BY <1>2, <2>1, <2>2 DEF Continue
  <2>. QED
    BY <1>2, <2>3, DispatchTypes DEF Continue, StackOK
<1>. QED
  BY <1>1, <1>2

\* The innermost method goes on after a statement.
LEMMA AfterStatement ==
    ASSUME StackOK, NEW s, AtStatement(s)
    PROVE  /\ stack # <<>>
           /\ Top.run \in Seq(Ops) /\ Top.run # <<>>
           /\ Tail(Top.run) \in Seq(Ops)
           /\ Head(Top.run) \in Ops
BY TopType DEF AtStatement

LEMMA ReportTypes ==
    ASSUME StackOK, NEW e \in Failures, NEW r \in 0..MaxSends, NEW by \in Callers,
           Report(e, r, by)
    PROVE  StackOK'
<1>1. CASE synchronousFlag
  BY <1>1 DEF Report, Stay, StackOK
<1>2. CASE ~synchronousFlag
  <2> DEFINE run == <<Fire("readystatechange"), FailUpload(e), Fire(e), Fire("loadend")>>
  <2>1. run \in Seq(Ops) /\ run # <<>>
    BY RunTypes
  <2>2. Push(run, r, by)
    BY <1>2 DEF Report
  <2>. HIDE DEF run
  <2>. QED
    BY <2>1, <2>2, PushTypes
<1>. QED
  BY <1>1, <1>2

-----------------------------------------------------------------------------
(***************************************************************************)
(* Types and the send() flag.                                              *)
(***************************************************************************)

\* The parts of TypeOK that are not on the stack.
FlagsOK ==
    /\ synchronousFlag \in BOOLEAN
    /\ uploadListenerFlag \in BOOLEAN /\ uploadCompleteFlag \in BOOLEAN
    /\ timedOutFlag \in BOOLEAN
    /\ requestBody \in {"null", "empty", "bytes"}

BodyOK ==
    /\ receivedBytes \in Seq(Requests)
    /\ responseType \in ResponseTypes \cup {"text"}
    /\ responseObject \in {<<>>} \cup ((ResponseTypes \cup {"text"}) \X Nat)

Places == {"idle", "connecting", "body", "nobody", "closed", "failed", "over"}

NetOK ==
    /\ sends \in 0..MaxSends
    /\ task \in [Requests -> Places]
    /\ writing \subseteq 0..MaxSends

StateOK ==
    /\ state \in UNSENT..DONE
    /\ sendFlag \in BOOLEAN
    /\ response \in Requests \cup {Null}
    /\ faults \subseteq {"listener", "late listener", "unsupported responseType",
                        "null response"}

ObjectOK == FlagsOK /\ BodyOK /\ NetOK /\ StateOK

LEMMA TypeParts == TypeOK <=> ObjectOK /\ StackOK
BY DEF TypeOK, ObjectOK, FlagsOK, BodyOK, NetOK, Places, StateOK, StackOK

LEMMA States ==
    /\ {UNSENT, OPENED, HEADERS_RECEIVED, LOADING, DONE} \subseteq UNSENT..DONE
    /\ UNSENT \notin {OPENED, HEADERS_RECEIVED, LOADING, DONE}
    /\ DONE \notin {UNSENT, OPENED, HEADERS_RECEIVED, LOADING}
    /\ HEADERS_RECEIVED \notin {UNSENT, OPENED, LOADING, DONE}
BY DEF UNSENT, OPENED, HEADERS_RECEIVED, LOADING, DONE

LEMMA SameParts ==
    /\ FlagsOK /\ UNCHANGED flagVars => FlagsOK'
    /\ BodyOK /\ UNCHANGED bodyVars => BodyOK'
    /\ NetOK /\ UNCHANGED netVars => NetOK'
BY DEF FlagsOK, BodyOK, NetOK, flagVars, bodyVars, netVars

LEMMA TypeInit == Init => TypeOK
<1>1. Init => FlagsOK /\ StateOK
  BY States DEF Init, FlagsOK, StateOK
<1>2. Init => BodyOK
  BY DEF Init, BodyOK
<1>3. Init => NetOK
  BY BoundsAssumption DEF BoundsAssumption, Init, NetOK, Places
<1>4. Init => StackOK
  BY DEF Init, StackOK
<1>. QED
  BY <1>1, <1>2, <1>3, <1>4, TypeParts DEF ObjectOK

LEMMA ProgramStack ==
    ASSUME TypeOK, Program
    PROVE  StackOK'
<1>. StackOK /\ ObjectOK
  BY TypeParts
<1>. "program" \in Callers
  BY DEF Callers
<1>1. ASSUME NEW async \in BOOLEAN, Open(async)
      PROVE  StackOK'
  <2>1. CASE state = OPENED
    BY <1>1, <2>1 DEF Open, OpenWith, Stay, StackOK
  <2>2. CASE state # OPENED
    <3>1. Push(<<Fire("readystatechange")>>, sends, "program")
      BY <1>1, <2>2 DEF Open, OpenWith
    <3>2. sends \in 0..MaxSends
      BY DEF ObjectOK, NetOK
    <3>. QED
      BY <3>1, <3>2, RunTypes, PushTypes
  <2>. QED
    BY <2>1, <2>2
<1>2. ASSUME NEW body \in Bodies, NEW u \in BOOLEAN, Send(body, u)
      PROVE  StackOK'
  <2>1. CASE synchronousFlag
    BY <1>2, <2>1 DEF Send, Stay, StackOK
  <2>2. CASE ~synchronousFlag
    <3> DEFINE run == <<Fire("loadstart"), Statement("startUpload"), Statement("request")>>
    <3>1. Push(run, sends + 1, "program") /\ sends + 1 \in 0..MaxSends
      BY <1>2, <2>2, BoundsAssumption DEF BoundsAssumption, Send, ObjectOK, NetOK
    <3>2. run \in Seq(Ops) /\ run # <<>>
      BY RunTypes
    <3>. HIDE DEF run
    <3>. QED
      BY <3>1, <3>2, PushTypes
  <2>. QED
    BY <2>1, <2>2
<1>3. CASE Abort
  <2>1. ASSUME Report("abort", sends, "program")
        PROVE  StackOK'
    BY <2>1, ReportTypes DEF Failures, ObjectOK, NetOK
  <2>2. ASSUME Stay
        PROVE  StackOK'
    BY <2>2 DEF Stay, StackOK
  <2>. QED
    BY <1>3, <2>1, <2>2 DEF Abort, AbortWhen
<1>4. ASSUME NEW t \in ResponseTypes, SetResponseType(t)
      PROVE  StackOK'
  BY <1>4 DEF SetResponseType, StackOK
<1>5. CASE ReadResponse
  BY <1>5 DEF ReadResponse, StackOK
<1>. QED
  BY <1>1, <1>2, <1>3, <1>4, <1>5 DEF Program

LEMMA MethodStack ==
    ASSUME TypeOK, Method
    PROVE  StackOK'
<1>. StackOK /\ ObjectOK
  BY TypeParts
<1>1. CASE ListenersReturn
  BY <1>1, TopType, ContinueTypes DEF ListenersReturn
<1>2. CASE StartUpload
  <2>1. Tail(Top.run) \in Seq(Ops) /\ stack # <<>>
    BY <1>2, AfterStatement DEF StartUpload
  <2>2. <<FireUpload("loadstart")>> \o Tail(Top.run) \in Seq(Ops)
    BY <2>1, RunTypes
  <2>. QED
    BY <1>2, <2>1, <2>2, ContinueTypes DEF StartUpload
<1>3. CASE StartRequest
  <2>1. stack # <<>>
    BY <1>3, AfterStatement DEF StartRequest
  <2>2. Continue(<<>>)
    BY <1>3 DEF StartRequest
  <2>3. <<>> \in Seq(Ops)
    OBVIOUS
  <2>. QED
    BY <2>1, <2>2, <2>3, ContinueTypes
<1>4. CASE ReadLength
  BY <1>4, AfterStatement, ContinueTypes DEF ReadLength
<1>5. CASE SetDone
  BY <1>5, AfterStatement, ContinueTypes DEF SetDone
<1>6. CASE FailTheUpload
  <2> DEFINE e == Head(Top.run)[2]
             end == IF UploadToReport
                    THEN <<FireUpload(e), FireUpload("loadend")>> ELSE <<>>
  <2>1. Tail(Top.run) \in Seq(Ops) /\ stack # <<>> /\ Head(Top.run) \in Ops
    BY <1>6, AfterStatement DEF FailTheUpload
  <2>2. Head(Top.run)[1] = "failUpload"
    BY <1>6 DEF FailTheUpload, AtStatement
  <2>3. e \in Failures
    BY <2>1, <2>2, FailUploadType
  <2>4. <<FireUpload(e), FireUpload("loadend")>> \in Seq(Ops)
    BY <2>3, RunTypes
  <2>5. end \in Seq(Ops)
    BY <2>4
  <2>6. Continue(end \o Tail(Top.run))
    BY <1>6 DEF FailTheUpload
  <2>. HIDE DEF end
  <2>7. end \o Tail(Top.run) \in Seq(Ops)
    BY <2>1, <2>5
  <2>. QED
    BY <2>1, <2>6, <2>7, ContinueTypes
<1>. QED
  BY <1>1, <1>2, <1>3, <1>4, <1>5, <1>6 DEF Method

LEMMA CoroutineStack ==
    ASSUME TypeOK, NEW r \in Requests, Coroutine(r)
    PROVE  StackOK'
<1>. StackOK /\ r \in 0..MaxSends /\ {"request", "writer", "catch"} \subseteq Callers
  BY TypeParts, BoundsAssumption DEF Requests, Callers
<1>1. ASSUME Stay
      PROVE  StackOK'
  BY <1>1 DEF Stay, StackOK
<1>2. CASE WriteChunk(r)
  BY <1>2, RunTypes, PushTypes DEF WriteChunk
<1>3. CASE WriteEnd(r)
  <2> DEFINE run == <<FireUpload("progress"), FireUpload("load"), FireUpload("loadend")>>
  <2>1. run \in Seq(Ops) /\ run # <<>>
    BY RunTypes
  <2>2. Push(run, r, "writer") \/ Stay
    BY <1>3 DEF WriteEnd
  <2>. HIDE DEF run
  <2>. QED
    BY <1>1, <2>1, <2>2, PushTypes
<1>4. CASE Response(r)
  BY <1>4, RunTypes, PushTypes DEF Response
<1>5. CASE BodyChunk(r)
  BY <1>5, RunTypes, PushTypes DEF BodyChunk
<1>6. CASE EndOfBody(r)
  <2> DEFINE run == <<Fire("progress"), Statement("setDone"), Fire("readystatechange"),
                      Fire("load"), Fire("loadend")>>
  <2>1. run \in Seq(Ops) /\ run # <<>>
    BY RunTypes
  <2>2. Push(run, r, "request")
    BY <1>6 DEF EndOfBody
  <2>. HIDE DEF run
  <2>. QED
    BY <2>1, <2>2, PushTypes
<1>7. CASE NetworkError(r) \/ Timeout(r)
  BY <1>1, <1>7 DEF NetworkError, Timeout
<1>8. CASE HandleErrors(r)
  <2>1. (\E e \in Failures : Report(e, r, "catch")) \/ Stay
    BY <1>8 DEF HandleErrors, Failures
  <2>. QED
    BY <1>1, <2>1, ReportTypes
<1>. QED
  BY <1>2, <1>3, <1>4, <1>5, <1>6, <1>7, <1>8 DEF Coroutine, Network

LEMMA ThrowStack ==
    ASSUME TypeOK, ListenerThrows
    PROVE  StackOK'
BY TypeParts, TopType DEF ListenerThrows, StackOK

LEMMA ProgramObject ==
    ASSUME TypeOK, Program
    PROVE  ObjectOK'
<1>. FlagsOK /\ BodyOK /\ NetOK /\ StateOK
  BY TypeParts DEF ObjectOK
<1>. USE States
<1>1. ASSUME NEW async \in BOOLEAN, Open(async)
      PROVE  ObjectOK'
  <2>1. FlagsOK'
    BY <1>1 DEF Open, OpenWith, FlagsOK
  <2>2. BodyOK'
    BY <1>1 DEF Open, OpenWith, BodyOK
  <2>3. StateOK'
    BY <1>1 DEF Open, OpenWith, StateOK
  <2>4. UNCHANGED netVars
    BY <1>1 DEF Open, OpenWith
  <2>. QED
    BY <2>1, <2>2, <2>3, <2>4, SameParts DEF ObjectOK
<1>2. ASSUME NEW body \in Bodies, NEW u \in BOOLEAN, Send(body, u)
      PROVE  ObjectOK'
  <2>1. FlagsOK'
    BY <1>2, BoundsAssumption DEF BoundsAssumption, Send, FlagsOK
  <2>2. NetOK'
    BY <1>2, BoundsAssumption DEF BoundsAssumption, Send, NetOK
  <2>3. StateOK'
    BY <1>2 DEF Send, StateOK
  <2>4. UNCHANGED bodyVars
    BY <1>2 DEF Send
  <2>. QED
    BY <2>1, <2>2, <2>3, <2>4, SameParts DEF ObjectOK
<1>3. CASE Abort
  <2>1. NetOK'
    BY <1>3 DEF Abort, AbortWhen, NetOK, Places
  <2>2. StateOK'
    BY <1>3 DEF Abort, AbortWhen, Report, StateOK
  <2>3. UNCHANGED <<flagVars, bodyVars>>
    BY <1>3 DEF Abort, AbortWhen
  <2>. QED
    BY <2>1, <2>2, <2>3, SameParts DEF ObjectOK
<1>4. ASSUME NEW t \in ResponseTypes, SetResponseType(t)
      PROVE  ObjectOK'
  <2>1. BodyOK'
    BY <1>4 DEF SetResponseType, BodyOK
  <2>2. StateOK'
    BY <1>4 DEF SetResponseType, StateOK
  <2>3. UNCHANGED <<flagVars, netVars>>
    BY <1>4 DEF SetResponseType
  <2>. QED
    BY <2>1, <2>2, <2>3, SameParts DEF ObjectOK
<1>5. CASE ReadResponse
  <2>1. Converted \in (ResponseTypes \cup {"text"}) \X Nat
    BY DEF Converted, BodyOK
  <2>2. BodyOK'
    BY <1>5, <2>1 DEF ReadResponse, ReadTextOrBuffer, ReadJson, BodyOK
  <2>3. StateOK'
    BY <1>5 DEF ReadResponse, ReadTextOrBuffer, ReadJson, StateOK
  <2>4. UNCHANGED <<flagVars, netVars>>
    BY <1>5 DEF ReadResponse
  <2>. QED
    BY <2>2, <2>3, <2>4, SameParts DEF ObjectOK
<1>. QED
  BY <1>1, <1>2, <1>3, <1>4, <1>5 DEF Program

LEMMA OverType ==
    ASSUME NetOK, NEW r, NEW at \in {"failed", "over"}, Over(r, at), UNCHANGED sends
    PROVE  NetOK'
BY DEF Over, NetOK, Places

LEMMA MethodObject ==
    ASSUME TypeOK, Method \/ ListenerThrows
    PROVE  ObjectOK'
<1>. FlagsOK /\ BodyOK /\ NetOK /\ StateOK /\ StackOK
  BY TypeParts DEF ObjectOK
<1>. USE States
<1>1. UNCHANGED bodyVars
  BY DEF Method, ListenersReturn, StartUpload, StartRequest, ReadLength, SetDone,
         FailTheUpload, ListenerThrows
<1>2. StateOK'
  <2>1. UNCHANGED <<state, sendFlag>> \/ (state' = DONE /\ sendFlag' = FALSE)
    BY DEF Method, ListenersReturn, StartUpload, StartRequest, ReadLength, SetDone,
           FailTheUpload, ListenerThrows
  <2>2. response' = response
    BY DEF Method, ListenersReturn, StartUpload, StartRequest, ReadLength, SetDone,
           FailTheUpload, ListenerThrows
  <2>3. faults' \subseteq faults \cup {"listener", "late listener", "null response"}
    BY DEF Method, ListenersReturn, StartUpload, StartRequest, ReadLength, SetDone,
           FailTheUpload, ListenerThrows, Thrown
  <2>. QED
    BY <2>1, <2>2, <2>3 DEF StateOK
<1>3. CASE ListenersReturn \/ StartUpload \/ ReadLength \/ SetDone
  <2>1. UNCHANGED <<flagVars, netVars>>
    BY <1>3 DEF ListenersReturn, StartUpload, ReadLength, SetDone
  <2>. QED
    BY <1>1, <1>2, <2>1, SameParts DEF ObjectOK
<1>4. CASE StartRequest
  <2>1. Top.req \in 0..MaxSends
    BY <1>4, AfterStatement, TopType DEF StartRequest
  <2>2. NetOK'
    BY <1>4, <2>1 DEF StartRequest, NetOK, Places
  <2>3. UNCHANGED flagVars
    BY <1>4 DEF StartRequest
  <2>. QED
    BY <1>1, <1>2, <2>2, <2>3, SameParts DEF ObjectOK
<1>5. CASE FailTheUpload
  <2>1. FlagsOK'
    BY <1>5 DEF FailTheUpload, FlagsOK
  <2>2. UNCHANGED netVars
    BY <1>5 DEF FailTheUpload
  <2>. QED
    BY <1>1, <1>2, <2>1, <2>2, SameParts DEF ObjectOK
<1>6. CASE ListenerThrows
  <2>1. sends' = sends /\ UNCHANGED flagVars
    BY <1>6 DEF ListenerThrows, Callback
  <2>2. Over(Top.req, "failed") \/ UNCHANGED <<task, writing>>
    BY <1>6 DEF ListenerThrows, Callback
  <2>3. NetOK'
    BY <2>1, <2>2, OverType, SameParts DEF netVars
  <2>. QED
    BY <1>1, <1>2, <2>1, <2>3, SameParts DEF ObjectOK
<1>. QED
  BY <1>3, <1>4, <1>5, <1>6 DEF Method

LEMMA CoroutineObject ==
    ASSUME TypeOK, NEW r \in Requests, Coroutine(r)
    PROVE  ObjectOK'
<1>. FlagsOK /\ BodyOK /\ NetOK /\ StateOK
  BY TypeParts DEF ObjectOK
<1>. USE States
<1>1. CASE WriteChunk(r)
  <2>1. UNCHANGED <<flagVars, bodyVars, netVars>> /\ StateOK'
    BY <1>1 DEF WriteChunk, StateOK
  <2>. QED
    BY <2>1, SameParts DEF ObjectOK
<1>2. CASE WriteEnd(r)
  <2>1. UNCHANGED bodyVars /\ StateOK'
    BY <1>2 DEF WriteEnd, StateOK
  <2>2. FlagsOK' /\ NetOK'
    BY <1>2 DEF WriteEnd, FlagsOK, NetOK
  <2>. QED
    BY <2>1, <2>2, SameParts DEF ObjectOK
<1>3. CASE Response(r)
  <2>1. UNCHANGED <<flagVars, bodyVars>> /\ StateOK'
    BY <1>3 DEF Response, StateOK
  <2>2. NetOK'
    BY <1>3 DEF Response, NetOK, Places
  <2>. QED
    BY <2>1, <2>2, SameParts DEF ObjectOK
<1>4. CASE BodyChunk(r)
  <2>1. UNCHANGED <<flagVars, netVars>> /\ StateOK'
    BY <1>4 DEF BodyChunk, StateOK
  <2>2. receivedBytes' \in Seq(Requests)
    BY <1>4 DEF BodyChunk, BodyOK
  <2>3. UNCHANGED <<responseType, responseObject>>
    BY <1>4 DEF BodyChunk
  <2>4. BodyOK'
    BY <2>2, <2>3 DEF BodyOK
  <2>. QED
    BY <2>1, <2>4, SameParts DEF ObjectOK
<1>5. CASE EndOfBody(r)
  <2>1. UNCHANGED <<flagVars, bodyVars>> /\ StateOK' /\ NetOK'
    BY <1>5, OverType DEF EndOfBody, StateOK
  <2>. QED
    BY <2>1, SameParts DEF ObjectOK
<1>6. CASE NetworkError(r)
  <2>1. UNCHANGED <<flagVars, bodyVars>> /\ StateOK' /\ NetOK'
    BY <1>6, OverType DEF NetworkError, StateOK
  <2>. QED
    BY <2>1, SameParts DEF ObjectOK
<1>7. CASE Timeout(r)
  <2>1. UNCHANGED bodyVars /\ StateOK' /\ NetOK'
    BY <1>7, OverType DEF Timeout, StateOK
  <2>2. FlagsOK'
    BY <1>7 DEF Timeout, FlagsOK
  <2>. QED
    BY <2>1, <2>2, SameParts DEF ObjectOK
<1>8. CASE HandleErrors(r)
  <2>1. UNCHANGED <<flagVars, bodyVars>> /\ NetOK'
    BY <1>8, OverType DEF HandleErrors
  <2>2. faults' = faults
    BY <1>8 DEF HandleErrors
  <2>3. \/ state' = DONE /\ sendFlag' = FALSE /\ response' = Null
        \/ UNCHANGED <<state, sendFlag, response>>
    BY <1>8 DEF HandleErrors, Report
  <2>4. StateOK'
    BY <2>2, <2>3 DEF StateOK
  <2>. QED
    BY <2>1, <2>4, SameParts DEF ObjectOK
<1>. QED
  BY <1>1, <1>2, <1>3, <1>4, <1>5, <1>6, <1>7, <1>8 DEF Coroutine, Network

LEMMA TypeStep ==
    ASSUME TypeOK, [Next]_vars
    PROVE  TypeOK'
<1> SUFFICES StackOK' /\ ObjectOK'
  BY DEF TypeOK, StackOK, ObjectOK, FlagsOK, BodyOK, NetOK, Places, StateOK
<1>1. CASE Program
  BY <1>1, ProgramStack, ProgramObject
<1>2. CASE Method
  BY <1>2, MethodStack, MethodObject
<1>3. CASE ListenerThrows
  BY <1>3, ThrowStack, MethodObject
<1>4. ASSUME NEW r \in Requests, Coroutine(r)
      PROVE  StackOK' /\ ObjectOK'
  BY <1>4, CoroutineStack, CoroutineObject
<1>5. CASE UNCHANGED vars
  <2>1. StackOK /\ ObjectOK
    BY TypeParts
  <2>. QED
    BY <1>5, <2>1, SameParts DEF vars, StackOK, ObjectOK, StateOK
<1>. QED
  BY <1>1, <1>2, <1>3, <1>4, <1>5 DEF Next

\* The variables have their types, at every depth of the call stack.
THEOREM TypeCorrect == Spec => []TypeOK
<1>1. TypeOK /\ [Next]_vars => TypeOK'
  BY TypeStep
<1>. QED
  BY <1>1, TypeInit, PTL DEF Spec

-----------------------------------------------------------------------------
(* The send() flag. *)

\* The steps that leave the send() flag and the state alone, or end the request.
LEMMA SentSteps ==
    ASSUME TypeOK, SentIsOpen,
           \/ UNCHANGED <<state, sendFlag>>
           \/ sendFlag' = FALSE
           \/ state' \in {OPENED, HEADERS_RECEIVED, LOADING}
    PROVE  SentIsOpen'
BY DEF SentIsOpen

\* abort() leaves the state DONE for UNSENT and does not touch the flag there.
LEMMA SentAbort ==
    ASSUME TypeOK, SentIsOpen, Abort
    PROVE  SentIsOpen'
<1>1. CASE state = DONE
  <2>1. sendFlag = FALSE
    BY <1>1, States, TypeParts DEF SentIsOpen, ObjectOK, StateOK
  <2>. QED
    BY <2>1, SentSteps DEF Abort, AbortWhen, Report
<1>2. CASE state # DONE
  BY <1>2, SentSteps DEF Abort, AbortWhen, Report
<1>. QED
  BY <1>1, <1>2

LEMMA SentStep ==
    ASSUME TypeOK, SentIsOpen, [Next]_vars
    PROVE  SentIsOpen'
<1>1. ASSUME NEW async \in BOOLEAN, Open(async)
      PROVE  SentIsOpen'
  BY <1>1, SentSteps DEF Open, OpenWith
<1>2. ASSUME NEW body \in Bodies, NEW u \in BOOLEAN, Send(body, u)
      PROVE  SentIsOpen'
  BY <1>2, SentSteps DEF Send
<1>3. CASE Abort
  BY <1>3, SentAbort
<1>4. ASSUME NEW t \in ResponseTypes, SetResponseType(t)
      PROVE  SentIsOpen'
  BY <1>4, SentSteps DEF SetResponseType
<1>5. CASE ReadResponse
  BY <1>5, SentSteps DEF ReadResponse
<1>6. CASE Method \/ ListenerThrows
  BY <1>6, SentSteps DEF Method, ListenersReturn, StartUpload, StartRequest, ReadLength,
                         SetDone, FailTheUpload, ListenerThrows
<1>7. ASSUME NEW r \in Requests, Coroutine(r)
      PROVE  SentIsOpen'
  <2>1. CASE Response(r)
    BY <2>1, SentSteps DEF Response
  <2>2. CASE BodyChunk(r)
    BY <2>2, SentSteps DEF BodyChunk
  <2>3. CASE HandleErrors(r)
    BY <2>3, SentSteps DEF HandleErrors, Report
  <2>4. CASE WriteChunk(r) \/ WriteEnd(r) \/ EndOfBody(r) \/ NetworkError(r) \/ Timeout(r)
    BY <2>4, SentSteps DEF WriteChunk, WriteEnd, EndOfBody, NetworkError, Timeout
  <2>. QED
    BY <1>7, <2>1, <2>2, <2>3, <2>4 DEF Coroutine, Network
<1>8. CASE UNCHANGED vars
  BY <1>8, SentSteps DEF vars
<1>. QED
  BY <1>1, <1>2, <1>3, <1>4, <1>5, <1>6, <1>7, <1>8 DEF Next, Program

\* Whatever the listeners call, and however late a response or an error comes,
\* an object that has its send() flag set is neither DONE nor UNSENT: send()
\* and open() are never both refused for good.
THEOREM SentIsAlwaysOpen == Spec => []SentIsOpen
<1>1. Init => SentIsOpen
  BY DEF Init, SentIsOpen
<1>2. TypeOK /\ SentIsOpen /\ [Next]_vars => SentIsOpen'
  BY SentStep
<1>. QED
  BY <1>1, <1>2, TypeCorrect, PTL DEF Spec

-----------------------------------------------------------------------------
(* The response that processResponse reads after its listeners. *)

Reads(run) == \E j \in DOMAIN run : run[j][1] = "readLength"

\* Whoever is still to read the length finds a response, in the only state in
\* which it looks.
ReadIsGuarded ==
    Pending("readLength") /\ state = HEADERS_RECEIVED => response # Null

NullInv == ReadIsGuarded /\ NoNullResponse

\* The runs with which methods begin or go on, but for that of processResponse.
LEMMA NoRead ==
    /\ \A e \in Failures :
         /\ ~Reads(<<Fire("readystatechange"), FailUpload(e), Fire(e), Fire("loadend")>>)
         /\ ~Reads(<<FireUpload(e), FireUpload("loadend")>>)
    /\ ~Reads(<<FireUpload("progress")>>)
    /\ ~Reads(<<FireUpload("progress"), FireUpload("load"), FireUpload("loadend")>>)
    /\ ~Reads(<<Fire("progress"), Statement("setDone"), Fire("readystatechange"),
                Fire("load"), Fire("loadend")>>)
    /\ ~Reads(<<FireUpload("loadstart")>>)
<1>1. /\ \A e : Fire(e)[1] # "readLength" /\ FireUpload(e)[1] # "readLength"
                 /\ FailUpload(e)[1] # "readLength"
      /\ Statement("setDone")[1] # "readLength"
  BY DEF Fire, FireUpload, FailUpload, Statement
<1>2. \A a : a[1] # "readLength" => ~Reads(<<a>>)
  BY DEF Reads
<1>3. \A a, b : a[1] # "readLength" /\ b[1] # "readLength" => ~Reads(<<a, b>>)
  BY DEF Reads
<1>4. \A a, b, c :
        a[1] # "readLength" /\ b[1] # "readLength" /\ c[1] # "readLength"
          => ~Reads(<<a, b, c>>)
  BY DEF Reads
<1>5. \A a, b, c, d :
        /\ a[1] # "readLength" /\ b[1] # "readLength"
        /\ c[1] # "readLength" /\ d[1] # "readLength"
        => ~Reads(<<a, b, c, d>>)
  BY DEF Reads
<1>6. \A a, b, c, d, e :
        /\ a[1] # "readLength" /\ b[1] # "readLength" /\ c[1] # "readLength"
        /\ d[1] # "readLength" /\ e[1] # "readLength"
        => ~Reads(<<a, b, c, d, e>>)
  BY DEF Reads
<1>. QED
  BY <1>1, <1>2, <1>3, <1>4, <1>5, <1>6

\* A method called on an empty stack reads only if its run does.
LEMMA PushReads ==
    ASSUME StackOK, stack = <<>>, NEW run \in Seq(Ops), run # <<>>, ~Reads(run),
           NEW r, NEW by, Push(run, r, by)
    PROVE  ~Pending("readLength")'
<1> DEFINE f == [run |-> Tail(run), req |-> r, by |-> by]
<1>1. stack' = <<f>>
  BY DEF Push
<1>2. \A j \in DOMAIN Tail(run) : j + 1 \in DOMAIN run /\ Tail(run)[j] = run[j + 1]
  OBVIOUS
<1>3. ~Reads(Tail(run))
  BY <1>2 DEF Reads
<1>4. ASSUME NEW i \in DOMAIN stack'
      PROVE  stack'[i].run = Tail(run)
  BY <1>1, <1>4
<1>. QED
  BY <1>3, <1>4 DEF Pending, Reads

\* A frame that goes on, or is left, adds no read to what is pending.
LEMMA ContinueReads ==
    ASSUME StackOK, stack # <<>>, NEW run \in Seq(Ops), Continue(run),
           Reads(run) => Reads(Top.run), Pending("readLength")'
    PROVE  Pending("readLength")
<1>1. PICK i \in DOMAIN stack' : Reads(stack'[i].run)
  BY DEF Pending, Reads
<1>2. stack \in Seq(Frames) /\ 1 \in DOMAIN stack
  BY DEF StackOK
<1>3. CASE run = <<>>
  <2>1. stack' = Tail(stack)
    BY <1>3 DEF Continue
  <2>2. i + 1 \in DOMAIN stack /\ stack'[i] = stack[i + 1]
    BY <1>1, <1>2, <2>1
  <2>. QED
    BY <1>1, <2>2 DEF Pending, Reads
<1>4. CASE run # <<>>
  <2> DEFINE f == [Top EXCEPT !.run = Tail(run)]
  <2>1. stack' = <<f>> \o Tail(stack) /\ f.run = Tail(run) /\ Tail(stack) \in Seq(Frames)
    BY <1>4, TopType DEF Continue, Frames
  <2>. HIDE DEF f
  <2>2. CASE i = 1
    <3>1. stack'[i] = f
      BY <2>1, <2>2
    <3>2. \A j \in DOMAIN Tail(run) : j + 1 \in DOMAIN run /\ Tail(run)[j] = run[j + 1]
      BY <1>4
    <3>3. Reads(run)
      BY <1>1, <2>1, <3>1, <3>2 DEF Reads
    <3>. QED
      BY <1>2, <3>3 DEF Pending, Reads, Top
  <2>3. CASE i # 1
    <3>1. i \in DOMAIN stack /\ stack'[i] = stack[i]
      BY <1>1, <1>2, <2>1, <2>3
    <3>. QED
      BY <1>1, <3>1 DEF Pending, Reads
  <2>. QED
    BY <2>2, <2>3
<1>. QED
  BY <1>3, <1>4

LEMMA JoinReads ==
    ASSUME NEW s \in Seq(Ops), NEW t \in Seq(Ops), ~Reads(s)
    PROVE  s \o t \in Seq(Ops) /\ (Reads(s \o t) => Reads(t))
<1>1. \A j \in DOMAIN (s \o t) :
        \/ j \in DOMAIN s /\ (s \o t)[j] = s[j]
        \/ j - Len(s) \in DOMAIN t /\ (s \o t)[j] = t[j - Len(s)]
  OBVIOUS
<1>. QED
  BY <1>1 DEF Reads

LEMMA NullProgram ==
    ASSUME TypeOK, NullInv, Program
    PROVE  NullInv'
<1>1. ASSUME NEW async \in BOOLEAN, Open(async)
      PROVE  NullInv'
  BY <1>1, States DEF Open, OpenWith, NullInv, ReadIsGuarded, NoNullResponse
<1>2. ASSUME NEW body \in Bodies, NEW u \in BOOLEAN, Send(body, u)
      PROVE  NullInv'
  BY <1>2, States DEF Send, NullInv, ReadIsGuarded, NoNullResponse
<1>3. CASE Abort
  BY <1>3, States DEF Abort, AbortWhen, Report, NullInv, ReadIsGuarded, NoNullResponse
<1>4. ASSUME NEW t \in ResponseTypes, SetResponseType(t)
      PROVE  NullInv'
  BY <1>4 DEF SetResponseType, NullInv, ReadIsGuarded, NoNullResponse, Pending
<1>5. CASE ReadResponse
  <2>1. faults' \subseteq faults \cup {"unsupported responseType"}
    BY <1>5 DEF ReadResponse, ReadTextOrBuffer, ReadJson
  <2>. QED
    BY <1>5, <2>1 DEF ReadResponse, NullInv, ReadIsGuarded, NoNullResponse, Pending
<1>. QED
  BY <1>1, <1>2, <1>3, <1>4, <1>5 DEF Program

LEMMA NullMethod ==
    ASSUME TypeOK, NullInv, Method
    PROVE  NullInv'
<1>. StackOK
  BY TypeParts
<1>1. ASSUME NEW run \in Seq(Ops), stack # <<>>, Continue(run),
             Reads(run) => Reads(Top.run),
             UNCHANGED <<state, response>>
      PROVE  ReadIsGuarded'
  BY <1>1, ContinueReads DEF NullInv, ReadIsGuarded
<1>2. ASSUME stack # <<>>, Top.run # <<>>
      PROVE  Reads(Tail(Top.run)) => Reads(Top.run)
  <2>1. Top.run \in Seq(Ops)
    BY <1>2, TopType
  <2>2. \A j \in DOMAIN Tail(Top.run) :
          j + 1 \in DOMAIN Top.run /\ Tail(Top.run)[j] = Top.run[j + 1]
    BY <1>2, <2>1
  <2>. QED
    BY <2>2 DEF Reads
<1>3. CASE ListenersReturn
  <2>1. Top.run \in Seq(Ops)
    BY <1>3, TopType DEF ListenersReturn
  <2>. QED
    BY <1>1, <1>3, <2>1 DEF ListenersReturn, NullInv, NoNullResponse
<1>4. CASE StartUpload
  <2> DEFINE run == <<FireUpload("loadstart")>> \o Tail(Top.run)
  <2>1. stack # <<>> /\ Top.run # <<>> /\ Tail(Top.run) \in Seq(Ops)
    BY <1>4, AfterStatement DEF StartUpload
  <2>2. <<FireUpload("loadstart")>> \in Seq(Ops) /\ ~Reads(<<FireUpload("loadstart")>>)
    BY RunTypes, NoRead
  <2>3. run \in Seq(Ops) /\ (Reads(run) => Reads(Tail(Top.run)))
    BY <2>1, <2>2, JoinReads
  <2>4. Continue(run) /\ UNCHANGED <<state, response, faults>>
    BY <1>4 DEF StartUpload
  <2>. HIDE DEF run
  <2>5. ReadIsGuarded'
    BY <1>1, <1>2, <2>1, <2>3, <2>4
  <2>. QED
    BY <2>4, <2>5 DEF NullInv, NoNullResponse
<1>5. CASE StartRequest
  <2>1. stack # <<>>
    BY <1>5, AfterStatement DEF StartRequest
  <2>2. <<>> \in Seq(Ops) /\ ~Reads(<<>>)
    BY DEF Reads
  <2>3. Continue(<<>>) /\ UNCHANGED <<state, response, faults>>
    BY <1>5 DEF StartRequest
  <2>4. ReadIsGuarded'
    BY <1>1, <2>2, <2>1, <2>3
  <2>. QED
    BY <2>3, <2>4 DEF NullInv, NoNullResponse
<1>6. CASE ReadLength
  <2>1. stack # <<>> /\ Top.run # <<>> /\ Tail(Top.run) \in Seq(Ops)
    BY <1>6, AfterStatement DEF ReadLength
  <2>2. ReadIsGuarded'
    BY <1>1, <1>2, <1>6, <2>1 DEF ReadLength
  <2>3. 1 \in DOMAIN stack /\ 1 \in DOMAIN Top.run
    BY <2>1, TopType DEF StackOK
  <2>4. Top.run[1][1] = "readLength"
    <3>1. Top.run \in Seq(Ops) /\ Top.run # <<>>
      BY <2>1, TopType
    <3>2. Top.run[1] = Head(Top.run)
      BY <3>1
    <3>3. Head(Top.run)[1] = "readLength"
      BY <1>6 DEF ReadLength, AtStatement
    <3>. QED
      BY <3>2, <3>3
  <2>5. Pending("readLength")
    BY <2>3, <2>4 DEF Pending, Top
  <2>6. faults' = faults
    BY <1>6, <2>5 DEF ReadLength, NullInv, ReadIsGuarded
  <2>. QED
    BY <2>2, <2>6 DEF NullInv, NoNullResponse
<1>7. CASE SetDone
  BY <1>7, States DEF SetDone, NullInv, ReadIsGuarded, NoNullResponse
<1>8. CASE FailTheUpload
  <2> DEFINE e == Head(Top.run)[2]
             end == IF UploadToReport
                    THEN <<FireUpload(e), FireUpload("loadend")>> ELSE <<>>
             run == end \o Tail(Top.run)
  <2>1. /\ stack # <<>> /\ Top.run # <<>> /\ Tail(Top.run) \in Seq(Ops)
        /\ Head(Top.run) \in Ops
    BY <1>8, AfterStatement DEF FailTheUpload
  <2>2. Head(Top.run)[1] = "failUpload"
    BY <1>8 DEF FailTheUpload, AtStatement
  <2>3. e \in Failures
    BY <2>1, <2>2, FailUploadType
  <2>4. end \in Seq(Ops) /\ ~Reads(end)
    <3>1. <<FireUpload(e), FireUpload("loadend")>> \in Seq(Ops) /\ <<>> \in Seq(Ops)
      BY <2>3, RunTypes
    <3>2. \A f \in Failures : ~Reads(<<FireUpload(f), FireUpload("loadend")>>)
      BY NoRead
    <3>3. ~Reads(<<>>)
      BY DEF Reads
    <3>4. ~Reads(<<FireUpload(e), FireUpload("loadend")>>)
      BY <2>3, <3>2
    <3>. QED
      BY <3>1, <3>3, <3>4
  <2>5. Continue(run) /\ UNCHANGED <<state, response, faults>>
    BY <1>8 DEF FailTheUpload
  <2>. HIDE DEF end
  <2>6. run \in Seq(Ops) /\ (Reads(run) => Reads(Tail(Top.run)))
    BY <2>1, <2>4, JoinReads
  <2>. HIDE DEF run
  <2>7. ReadIsGuarded'
    BY <1>1, <1>2, <2>1, <2>5, <2>6
  <2>. QED
    BY <2>5, <2>7 DEF NullInv, NoNullResponse
<1>. QED
  BY <1>3, <1>4, <1>5, <1>6, <1>7, <1>8 DEF Method

LEMMA NullThrow ==
    ASSUME TypeOK, NullInv, ListenerThrows
    PROVE  NullInv'
<1>. StackOK
  BY TypeParts
<1>1. stack # <<>> /\ stack' = Tail(stack) /\ UNCHANGED <<state, response>>
  BY DEF ListenerThrows
<1>2. \A i \in DOMAIN Tail(stack) : i + 1 \in DOMAIN stack /\ Tail(stack)[i] = stack[i + 1]
  BY <1>1 DEF StackOK
<1>3. Pending("readLength")' => Pending("readLength")
  BY <1>1, <1>2 DEF Pending
<1>4. faults' \subseteq faults \cup {"listener", "late listener"}
  BY DEF ListenerThrows, Thrown
<1>. QED
  BY <1>1, <1>3, <1>4 DEF NullInv, ReadIsGuarded, NoNullResponse

LEMMA NullCoroutine ==
    ASSUME TypeOK, NullInv, NEW r \in Requests, Coroutine(r)
    PROVE  NullInv'
<1>. StackOK /\ stack = <<>> /\ faults' = faults
  BY TypeParts DEF Coroutine, Network, WriteChunk, WriteEnd, Response, BodyChunk,
                   EndOfBody, NetworkError, Timeout, HandleErrors, LoopRuns
<1>1. SUFFICES ReadIsGuarded'
  BY DEF NullInv, NoNullResponse
<1>2. ~Pending("readLength")
  BY DEF Pending
<1>3. ASSUME Stay
      PROVE  ReadIsGuarded'
  BY <1>2, <1>3 DEF Stay, ReadIsGuarded, Pending
<1>4. ASSUME NEW run \in Seq(Ops), run # <<>>, ~Reads(run), NEW by, Push(run, r, by)
      PROVE  ReadIsGuarded'
  BY <1>4, PushReads DEF ReadIsGuarded
<1>5. CASE WriteChunk(r)
  BY <1>4, <1>5, RunTypes, NoRead DEF WriteChunk
<1>6. CASE WriteEnd(r)
  <2> DEFINE run == <<FireUpload("progress"), FireUpload("load"), FireUpload("loadend")>>
  <2>1. run \in Seq(Ops) /\ run # <<>> /\ ~Reads(run)
    BY RunTypes, NoRead
  <2>2. Push(run, r, "writer") \/ Stay
    BY <1>6 DEF WriteEnd
  <2>. HIDE DEF run
  <2>. QED
    BY <1>3, <1>4, <2>1, <2>2
<1>7. CASE Response(r)
  BY <1>7 DEF Response, ReadIsGuarded, Requests, Null
<1>8. CASE BodyChunk(r)
  BY <1>8, States DEF BodyChunk, NullInv, ReadIsGuarded
<1>9. CASE EndOfBody(r)
  <2> DEFINE run == <<Fire("progress"), Statement("setDone"), Fire("readystatechange"),
                      Fire("load"), Fire("loadend")>>
  <2>1. run \in Seq(Ops) /\ run # <<>> /\ ~Reads(run)
    BY RunTypes, NoRead
  <2>2. Push(run, r, "request")
    BY <1>9 DEF EndOfBody
  <2>. HIDE DEF run
  <2>. QED
    BY <1>4, <2>1, <2>2
<1>10. CASE NetworkError(r) \/ Timeout(r)
  BY <1>3, <1>10 DEF NetworkError, Timeout
<1>11. CASE HandleErrors(r)
  <2>1. Stay \/ state' = DONE
    BY <1>11 DEF HandleErrors, Report
  <2>. QED
    BY <1>3, <2>1, States DEF ReadIsGuarded
<1>. QED
  BY <1>5, <1>6, <1>7, <1>8, <1>9, <1>10, <1>11 DEF Coroutine, Network

\* processResponse reads this.#response.contentLength after its listeners ran,
\* guarded by the state alone.  It never finds null, at any depth of calls of
\* open(), send() and abort() by those listeners.
THEOREM ResponseIsThere == Spec => []NoNullResponse
<1>1. Init => NullInv
  BY DEF Init, NullInv, ReadIsGuarded, NoNullResponse, Pending
<1>2. TypeOK /\ NullInv /\ [Next]_vars => NullInv'
  <2> SUFFICES ASSUME TypeOK, NullInv, [Next]_vars
               PROVE  NullInv'
    OBVIOUS
  <2>1. CASE UNCHANGED vars
    BY <2>1 DEF vars, NullInv, ReadIsGuarded, NoNullResponse, Pending
  <2>. QED
    BY <2>1, NullProgram, NullMethod, NullThrow, NullCoroutine DEF Next
<1>3. NullInv => NoNullResponse
  BY DEF NullInv
<1>. QED
  BY <1>1, <1>2, <1>3, TypeCorrect, PTL DEF Spec

-----------------------------------------------------------------------------
(***************************************************************************)
(* One request at a time.  The rest of the module proves what the object   *)
(* promises to a program that does not start a request before the last one *)
(* is over (OneAtATime), until a callback of a request fails after the     *)
(* program has started the next (Mixed).  The invariant says what each     *)
(* method on the stack has yet to do, what a request has reported of its   *)
(* end, and how both go together with the object's flags and the coroutine.*)
(***************************************************************************)

\* What the frames of the methods hold while the listeners of an event run.
Outcomes == Failures \cup {"load"}
StartsUpload == <<Statement("startUpload"), Statement("request")>>    \* send()
StartsRequest == <<Statement("request")>>
ReadsLength == <<Statement("readLength")>>                            \* processResponse
Progresses == <<Fire("progress")>>                                    \* processBodyChunk
SetsDone == <<Statement("setDone"), Fire("readystatechange"),         \* processEndOfBody
              Fire("load"), Fire("loadend")>>
Fails(e) == <<FailUpload(e), Fire(e), Fire("loadend")>>               \* #reportRequestError()
UploadFails(e) == <<FireUpload("loadend"), Fire(e), Fire("loadend")>>
Ends(k) == <<Fire(k), Fire("loadend")>>
LastEnd == <<Fire("loadend")>>
UploadEnds == <<FireUpload("load"), FireUpload("loadend")>>           \* processRequestEndOfBody
LastUploadEnd == <<FireUpload("loadend")>>

\* By what they have yet to do: start the request, report the end or the last
\* event of it, the same for the upload, and write to the object.
Starts == {StartsUpload, StartsRequest}
FirstEnds == {SetsDone} \cup {Fails(e) : e \in Failures}
               \cup {UploadFails(e) : e \in Failures} \cup {Ends(k) : k \in Outcomes}
Finals == FirstEnds \cup {LastEnd}
LastUploadEnds == {LastUploadEnd} \cup {UploadFails(e) : e \in Failures}
UploadFinals == {UploadEnds} \cup LastUploadEnds
Acts == Starts \cup {ReadsLength, SetsDone} \cup {Fails(e) : e \in Failures}
Runs == {<<>>, Progresses} \cup Acts \cup Finals \cup UploadFinals

LEMMA Ops12 ==
    /\ \A e : /\ Fire(e)[1] = "fire" /\ Fire(e)[2] = e
              /\ FireUpload(e)[1] = "fireUpload" /\ FireUpload(e)[2] = e
              /\ FailUpload(e)[1] = "failUpload" /\ FailUpload(e)[2] = e
    /\ \A s : Statement(s)[1] = s
BY DEF Fire, FireUpload, FailUpload, Statement

\* Length and first operation tell the runs apart.
LEMMA Shapes ==
    /\ Len(<<>>) = 0
    /\ Len(StartsUpload) = 2 /\ StartsUpload[1] = Statement("startUpload")
    /\ Len(StartsRequest) = 1 /\ StartsRequest[1] = Statement("request")
    /\ Len(ReadsLength) = 1 /\ ReadsLength[1] = Statement("readLength")
    /\ Len(Progresses) = 1 /\ Progresses[1] = Fire("progress")
    /\ Len(SetsDone) = 4 /\ SetsDone[1] = Statement("setDone")
    /\ \A e : /\ Len(Fails(e)) = 3 /\ Fails(e)[1] = FailUpload(e)
              /\ Len(UploadFails(e)) = 3 /\ UploadFails(e)[1] = FireUpload("loadend")
              /\ Len(Ends(e)) = 2 /\ Ends(e)[1] = Fire(e)
    /\ Len(LastEnd) = 1 /\ LastEnd[1] = Fire("loadend")
    /\ Len(UploadEnds) = 2 /\ UploadEnds[1] = FireUpload("load")
    /\ Len(LastUploadEnd) = 1 /\ LastUploadEnd[1] = FireUpload("loadend")
BY DEF StartsUpload, StartsRequest, ReadsLength, Progresses, SetsDone, Fails, UploadFails,
       Ends, LastEnd, UploadEnds, LastUploadEnd

LEMMA Tails ==
    /\ Tail(StartsUpload) = StartsRequest
    /\ Tail(StartsRequest) = <<>> /\ Tail(ReadsLength) = <<>> /\ Tail(Progresses) = <<>>
    /\ Tail(LastEnd) = <<>> /\ Tail(LastUploadEnd) = <<>>
    /\ Tail(UploadEnds) = LastUploadEnd
    /\ \A e : Tail(UploadFails(e)) = Ends(e) /\ Tail(Fails(e)) = Ends(e) /\ Tail(Ends(e)) = LastEnd
BY DEF StartsUpload, StartsRequest, ReadsLength, Progresses, Fails, UploadFails,
       Ends, LastEnd, UploadEnds, LastUploadEnd

LEMMA RunsAreSequences == \A run \in Runs : run \in Seq(Ops)
<1>1. /\ StartsUpload \in Seq(Ops) /\ StartsRequest \in Seq(Ops) /\ ReadsLength \in Seq(Ops)
      /\ Progresses \in Seq(Ops) /\ SetsDone \in Seq(Ops) /\ LastEnd \in Seq(Ops)
      /\ UploadEnds \in Seq(Ops) /\ LastUploadEnd \in Seq(Ops)
  BY OpsTypes DEF Events, Endings, StartsUpload, StartsRequest, ReadsLength, Progresses,
                  SetsDone, LastEnd, UploadEnds, LastUploadEnd
<1>2. \A e \in Failures : Fails(e) \in Seq(Ops) /\ UploadFails(e) \in Seq(Ops)
  BY OpsTypes DEF Events, Endings, Fails, UploadFails
<1>3. \A k \in Outcomes : Ends(k) \in Seq(Ops)
  BY OpsTypes DEF Events, Endings, Outcomes, Ends
<1>4. <<>> \in Seq(Ops)
  OBVIOUS
<1>. QED
  BY <1>1, <1>2, <1>3, <1>4 DEF Runs, Acts, Starts, FirstEnds, Finals, UploadFinals,
                                LastUploadEnds

\* The table of the runs and the sets above.
LEMMA Kinds ==
    /\ <<>> \notin Acts \cup Finals \cup UploadFinals
    /\ Progresses \notin Acts \cup Finals \cup UploadFinals
    /\ \A run \in Starts : run \notin Finals \cup UploadFinals \cup {SetsDone}
    /\ ReadsLength \notin Starts \cup Finals \cup UploadFinals \cup {SetsDone}
    /\ SetsDone \notin Starts \cup UploadFinals \cup {LastEnd}
    /\ \A e \in Failures :
         /\ Fails(e) \notin Starts \cup UploadFinals \cup {SetsDone, LastEnd}
         /\ UploadFails(e) \notin Acts \cup {UploadEnds, LastEnd}
    /\ \A k \in Outcomes : Ends(k) \notin Acts \cup UploadFinals \cup {LastEnd}
    /\ LastEnd \notin FirstEnds \cup Acts \cup UploadFinals
    /\ UploadEnds \notin Acts \cup Finals \cup LastUploadEnds
    /\ LastUploadEnd \notin Acts \cup Finals \cup {UploadEnds}
<1>. USE Shapes, Ops12 DEF Acts, Starts, Finals, FirstEnds, UploadFinals, LastUploadEnds, Outcomes, Failures
<1>1. <<>> \notin Acts \cup Finals \cup UploadFinals
  BY SMTT(20)
<1>2. Progresses \notin Acts \cup Finals \cup UploadFinals
  OBVIOUS
<1>3. \A run \in Starts : run \notin Finals \cup UploadFinals \cup {SetsDone}
  OBVIOUS
<1>4. ReadsLength \notin Starts \cup Finals \cup UploadFinals \cup {SetsDone}
  OBVIOUS
<1>5. SetsDone \notin Starts \cup UploadFinals \cup {LastEnd}
  OBVIOUS
<1>6. \A e \in Failures :
         /\ Fails(e) \notin Starts \cup UploadFinals \cup {SetsDone, LastEnd}
         /\ UploadFails(e) \notin Acts \cup {UploadEnds, LastEnd}
  OBVIOUS
<1>7. \A k \in Outcomes : Ends(k) \notin Acts \cup UploadFinals \cup {LastEnd}
  OBVIOUS
<1>8. LastEnd \notin FirstEnds \cup Acts \cup UploadFinals
  OBVIOUS
<1>9. UploadEnds \notin Acts \cup Finals \cup LastUploadEnds
  OBVIOUS
<1>10. LastUploadEnd \notin Acts \cup Finals \cup {UploadEnds}
  OBVIOUS
<1>. QED
  BY <1>1, <1>2, <1>3, <1>4, <1>5, <1>6, <1>7, <1>8, <1>9, <1>10

\* A frame at one of its events, and at one of its statements.
LEMMA AtEvent ==
    ASSUME NEW run \in Runs, run # <<>>, IsEvent(Head(run))
    PROVE  \/ run = Progresses
           \/ \E e \in Failures : run = UploadFails(e)
           \/ \E k \in Outcomes : run = Ends(k)
           \/ run \in {LastEnd, UploadEnds, LastUploadEnd}
<1>1. run \notin {StartsUpload, StartsRequest, ReadsLength, SetsDone}
  BY Shapes, Ops12 DEF IsEvent
<1>2. \A e \in Failures : run # Fails(e)
  BY Shapes, Ops12 DEF IsEvent
<1>. QED
  BY <1>1, <1>2 DEF Runs, Acts, Starts, FirstEnds, Finals, UploadFinals, LastUploadEnds

LEMMA AtAct ==
    ASSUME NEW run \in Runs, run # <<>>
    PROVE  /\ Head(run)[1] = "startUpload" => run = StartsUpload
           /\ Head(run)[1] = "request" => run = StartsRequest
           /\ Head(run)[1] = "readLength" => run = ReadsLength
           /\ Head(run)[1] = "setDone" => run = SetsDone
           /\ Head(run)[1] = "failUpload" =>
                \E e \in Failures : run = Fails(e) /\ Head(run)[2] = e
<1>1. \/ run \in {Progresses, StartsUpload, StartsRequest, ReadsLength, SetsDone, LastEnd,
                  UploadEnds, LastUploadEnd}
      \/ \E e : run \in {UploadFails(e), Ends(e)}
      \/ \E e \in Failures : run = Fails(e)
  BY DEF Runs, Acts, Starts, FirstEnds, Finals, UploadFinals, LastUploadEnds
<1>2. CASE run \in {Progresses, StartsUpload, StartsRequest, ReadsLength, SetsDone, LastEnd,
                    UploadEnds, LastUploadEnd}
  BY <1>2, Shapes, Ops12
<1>3. CASE \E e : run \in {UploadFails(e), Ends(e)}
  BY <1>3, Shapes, Ops12
<1>4. CASE \E e \in Failures : run = Fails(e)
  BY <1>4, Shapes, Ops12
<1>. QED
  BY <1>1, <1>2, <1>3, <1>4

\* What dispatchEvent() adds to the history.
LEMMA FireLogs ==
    ASSUME NEW e, NEW r, Dispatch(Fire(e), r)
    PROVE  /\ uploadLog' = uploadLog
           /\ e \notin Endings => log' = log
           /\ e \in Endings /\ r \in Requests => log' = [log EXCEPT ![r] = Append(@, e)]
           /\ r \notin Requests => log' = log
BY Ops12 DEF Dispatch, Log

LEMMA FireUploadLogs ==
    ASSUME NEW e, NEW r, Dispatch(FireUpload(e), r)
    PROVE  /\ log' = log
           /\ e \notin Endings => uploadLog' = uploadLog
           /\ e \in Endings /\ r \in Requests =>
                uploadLog' = [uploadLog EXCEPT ![r] = Append(@, e)]
           /\ r \notin Requests => uploadLog' = uploadLog
BY Ops12 DEF Dispatch, Log

-----------------------------------------------------------------------------
(* What the frames have yet to do. *)

Has(R) == \E i \in DOMAIN stack : stack[i].run \in R
HasFor(r, R) == \E i \in DOMAIN stack : stack[i].run \in R /\ stack[i].req = r

\* A request, or its upload, has reported the first of its final events or a
\* method will; it has reported the last one or a method will.
Ended(r) == log[r] # <<>> \/ HasFor(r, Finals)
UploadEnded(r) == uploadLog[r] # <<>> \/ HasFor(r, UploadFinals)
Closes(r) == Contains(log[r], "loadend") \/ HasFor(r, Finals)

\* The shape of the frames.  A method that writes to the object does it for the
\* last request; the event loop calls on an empty stack.
FrameInv ==
    \A i \in DOMAIN stack :
      LET f == stack[i]
      IN  /\ f.run \in Runs /\ f.req <= sends
          /\ f.run \in Acts => f.req = sends /\ f.req \in Requests
          /\ f.by # "program" => i = Len(stack)
          /\ f.by \in {"request", "writer"} => f.req \in Requests
          /\ f.run = SetsDone => f.by = "request"

\* One method at most has the end of a request to report, or of its upload, and
\* one at most is to start a request.
Once ==
    \A i, j \in DOMAIN stack :
      /\ stack[i].req = stack[j].req /\ stack[i].req \in Requests =>
           /\ stack[i].run \in Finals /\ stack[j].run \in Finals => i = j
           /\ stack[i].run \in UploadFinals /\ stack[j].run \in UploadFinals => i = j
      /\ stack[i].run \in Starts /\ stack[j].run \in Starts => i = j

\* A history is what the frame that reports the end can still complete.
Histories == {<<>>} \cup {<<k>> : k \in Outcomes} \cup {<<k, "loadend">> : k \in Outcomes}

EndLog(r) ==
    /\ log[r] \in Histories
    /\ r > sends => log[r] = <<>>
    /\ HasFor(r, FirstEnds) => log[r] = <<>>
    /\ HasFor(r, {LastEnd}) => \E k \in Outcomes : log[r] = <<k>>

UploadEndLog(r) ==
    /\ uploadLog[r] \in Histories
    /\ r > sends => uploadLog[r] = <<>>
    /\ HasFor(r, {UploadEnds}) => uploadLog[r] = <<>>
    /\ HasFor(r, LastUploadEnds) => \E k \in Outcomes : uploadLog[r] = <<k>>

LogInv == \A r \in Requests : EndLog(r) /\ UploadEndLog(r)

StackInv == FrameInv /\ Once /\ LogInv

-----------------------------------------------------------------------------
(* Where the frames go when the innermost one changes. *)

LEMMA PushFrames ==
    ASSUME StackOK, NEW f, stack' = <<f>> \o stack
    PROVE  /\ DOMAIN stack' = 1..(Len(stack) + 1) /\ Len(stack') = Len(stack) + 1
           /\ stack'[1] = f
           /\ \A i \in DOMAIN stack : i + 1 \in DOMAIN stack' /\ stack'[i + 1] = stack[i]
           /\ \A i \in DOMAIN stack' : i # 1 => i - 1 \in DOMAIN stack /\ stack'[i] = stack[i - 1]
           /\ \A R : Has(R)' <=> f.run \in R \/ Has(R)
           /\ \A r, R : HasFor(r, R)' <=> (f.run \in R /\ f.req = r) \/ HasFor(r, R)
<1>. stack \in Seq(Frames)
  BY DEF StackOK
<1>1. /\ DOMAIN stack' = 1..(Len(stack) + 1) /\ Len(stack') = Len(stack) + 1
      /\ stack'[1] = f
      /\ \A i \in DOMAIN stack : i + 1 \in DOMAIN stack' /\ stack'[i + 1] = stack[i]
      /\ \A i \in DOMAIN stack' : i # 1 => i - 1 \in DOMAIN stack /\ stack'[i] = stack[i - 1]
  OBVIOUS
<1>2. 1 \in DOMAIN stack'
  BY <1>1
<1>3. \A R : Has(R)' <=> f.run \in R \/ Has(R)
  BY <1>1, <1>2 DEF Has
<1>4. ASSUME NEW r, NEW R
      PROVE  HasFor(r, R)' <=> (f.run \in R /\ f.req = r) \/ HasFor(r, R)
  <2>1. HasFor(r, R)' => (f.run \in R /\ f.req = r) \/ HasFor(r, R)
    BY <1>1 DEF HasFor
  <2>2. f.run \in R /\ f.req = r => HasFor(r, R)'
    BY <1>1, <1>2 DEF HasFor
  <2>3. HasFor(r, R) => HasFor(r, R)'
    BY <1>1 DEF HasFor
  <2>. QED
    BY <2>1, <2>2, <2>3
<1>. QED
  BY <1>1, <1>3, <1>4

LEMMA PopFrames ==
    ASSUME StackOK, stack # <<>>, stack' = Tail(stack)
    PROVE  /\ 1 \in DOMAIN stack /\ Len(stack) = Len(stack') + 1
           /\ \A i \in DOMAIN stack' : i + 1 \in DOMAIN stack /\ stack'[i] = stack[i + 1]
           /\ \A R : Has(R) <=> Top.run \in R \/ Has(R)'
           /\ \A r, R : HasFor(r, R) <=> (Top.run \in R /\ Top.req = r) \/ HasFor(r, R)'
<1>. stack \in Seq(Frames)
  BY DEF StackOK
<1>1. /\ 1 \in DOMAIN stack /\ Len(stack) = Len(stack') + 1
      /\ \A i \in DOMAIN stack' : i + 1 \in DOMAIN stack /\ stack'[i] = stack[i + 1]
      /\ \A i \in DOMAIN stack : i # 1 => i - 1 \in DOMAIN stack' /\ stack'[i - 1] = stack[i]
  OBVIOUS
<1>2. \A R : Has(R) <=> Top.run \in R \/ Has(R)'
  BY <1>1 DEF Has, Top
<1>3. ASSUME NEW r, NEW R
      PROVE  HasFor(r, R) <=> (Top.run \in R /\ Top.req = r) \/ HasFor(r, R)'
  <2>1. ASSUME NEW i \in DOMAIN stack, stack[i].run \in R, stack[i].req = r
        PROVE  (Top.run \in R /\ Top.req = r) \/ HasFor(r, R)'
    <3>1. CASE i = 1
      BY <2>1, <3>1 DEF Top
    <3>2. CASE i # 1
      <4>1. i - 1 \in DOMAIN stack' /\ stack'[i - 1] = stack[i]
        BY <1>1, <3>2
      <4>. QED
        BY <2>1, <4>1, Zenon DEF HasFor
    <3>. QED
      BY <3>1, <3>2
  <2>2. Top.run \in R /\ Top.req = r => HasFor(r, R)
    BY <1>1 DEF HasFor, Top
  <2>3. HasFor(r, R)' => HasFor(r, R)
    BY <1>1 DEF HasFor
  <2>4. HasFor(r, R) => (Top.run \in R /\ Top.req = r) \/ HasFor(r, R)'
    BY <2>1 DEF HasFor
  <2>. QED
    BY <2>2, <2>3, <2>4
<1>. QED
  BY <1>1, <1>2, <1>3

\* The innermost frame goes on and has `run` left to do.
LEMMA TopFrames ==
    ASSUME StackOK, stack # <<>>, NEW run,
           stack' = <<[Top EXCEPT !.run = run]>> \o Tail(stack)
    PROVE  /\ DOMAIN stack' = DOMAIN stack /\ Len(stack') = Len(stack) /\ 1 \in DOMAIN stack
           /\ stack'[1].run = run /\ stack'[1].req = Top.req /\ stack'[1].by = Top.by
           /\ \A i \in DOMAIN stack : i # 1 => stack'[i] = stack[i]
           /\ \A R : (run \in R <=> Top.run \in R) => (Has(R)' <=> Has(R))
           /\ \A r, R : (Top.req = r => (run \in R <=> Top.run \in R))
                          => (HasFor(r, R)' <=> HasFor(r, R))
           /\ \A R : run \in R => Has(R)'
<1>. stack \in Seq(Frames)
  BY DEF StackOK
<1>1. /\ DOMAIN stack' = DOMAIN stack /\ Len(stack') = Len(stack) /\ 1 \in DOMAIN stack
      /\ stack'[1] = [Top EXCEPT !.run = run]
      /\ \A i \in DOMAIN stack : i # 1 => stack'[i] = stack[i]
  OBVIOUS
<1>2. stack'[1].run = run /\ stack'[1].req = Top.req /\ stack'[1].by = Top.by
  BY <1>1, TopType DEF Frames
<1>3. \A R : (run \in R <=> Top.run \in R) => (Has(R)' <=> Has(R))
  BY <1>1, <1>2 DEF Has, Top
<1>4. \A r, R : (Top.req = r => (run \in R <=> Top.run \in R))
                          => (HasFor(r, R)' <=> HasFor(r, R))
  BY <1>1, <1>2 DEF HasFor, Top
<1>5. \A R : run \in R => Has(R)'
  BY <1>1, <1>2 DEF Has
<1>. QED
  BY <1>1, <1>2, <1>3, <1>4, <1>5

\* The invariant of the frames along the three kinds of step.
LEMMA PushInv ==
    ASSUME StackOK, StackInv, sends \in Nat, sends' \in Nat, sends' >= sends,
           UNCHANGED <<log, uploadLog>>,
           NEW run \in Runs, NEW r \in Nat, NEW by,
           stack' = <<[run |-> run, req |-> r, by |-> by]>> \o stack,
           r <= sends',
           run \in Acts => r = sends' /\ r \in Requests,
           Has(Acts) => sends' = sends,
           by # "program" => stack = <<>>,
           by \in {"request", "writer"} => r \in Requests,
           run = SetsDone => by = "request",
           run \in Starts => ~Has(Starts),
           run \in Finals => run # LastEnd,
           run \in UploadFinals => run = UploadEnds,
           r \in Requests /\ run \in Finals => ~Ended(r),
           r \in Requests /\ run \in UploadFinals => ~UploadEnded(r)
    PROVE  /\ StackInv'
           /\ \A x \in Requests :
                /\ Ended(x)' <=> Ended(x) \/ (x = r /\ run \in Finals)
                /\ UploadEnded(x)' <=> UploadEnded(x) \/ (x = r /\ run \in UploadFinals)
                /\ Closes(x)' <=> Closes(x) \/ (x = r /\ run \in Finals)
           /\ \A R : Has(R)' <=> run \in R \/ Has(R)
<1> DEFINE f == [run |-> run, req |-> r, by |-> by]
<1>. f.run = run /\ f.req = r /\ f.by = by /\ stack' = <<f>> \o stack
  OBVIOUS
<1>. HIDE DEF f
<1>1. /\ DOMAIN stack' = 1..(Len(stack) + 1) /\ Len(stack') = Len(stack) + 1
      /\ stack'[1] = f
      /\ \A i \in DOMAIN stack : i + 1 \in DOMAIN stack' /\ stack'[i + 1] = stack[i]
      /\ \A i \in DOMAIN stack' : i # 1 => i - 1 \in DOMAIN stack /\ stack'[i] = stack[i - 1]
      /\ \A R : Has(R)' <=> run \in R \/ Has(R)
      /\ \A x, R : HasFor(x, R)' <=> (run \in R /\ r = x) \/ HasFor(x, R)
  BY PushFrames
<1>2. Len(stack) \in Nat /\ DOMAIN stack = 1..Len(stack) /\ (stack = <<>> => Len(stack) = 0)
  BY DEF StackOK
<1>3. FrameInv'
  <2> SUFFICES ASSUME NEW i \in DOMAIN stack'
               PROVE  /\ stack'[i].run \in Runs /\ stack'[i].req <= sends'
                      /\ stack'[i].run \in Acts => stack'[i].req = sends' /\ stack'[i].req \in Requests
                      /\ stack'[i].by # "program" => i = Len(stack')
                      /\ stack'[i].by \in {"request", "writer"} => stack'[i].req \in Requests
                      /\ stack'[i].run = SetsDone => stack'[i].by = "request"
    BY DEF FrameInv
  <2>1. CASE i = 1
    BY <1>1, <1>2, <2>1
  <2>2. CASE i # 1
    <3>1. i - 1 \in DOMAIN stack /\ stack'[i] = stack[i - 1]
      BY <1>1, <2>2
    <3>3. stack[i - 1].req \in Nat
      <4>1. stack[i - 1] \in Frames
        BY <3>1 DEF StackOK
      <4>. QED
        BY <4>1, BoundsAssumption DEF Frames, BoundsAssumption
    <3>2. stack[i - 1].run \in Acts => Has(Acts)
      BY <3>1 DEF Has
    <3>. QED
      BY <1>1, <1>2, <3>1, <3>2, <3>3 DEF StackInv, FrameInv
  <2>. QED
    BY <2>1, <2>2
<1>4. Once'
  <2> SUFFICES ASSUME NEW i \in DOMAIN stack', NEW j \in DOMAIN stack'
               PROVE  /\ stack'[i].req = stack'[j].req /\ stack'[i].req \in Requests =>
                           /\ stack'[i].run \in Finals /\ stack'[j].run \in Finals => i = j
                           /\ stack'[i].run \in UploadFinals /\ stack'[j].run \in UploadFinals => i = j
                      /\ stack'[i].run \in Starts /\ stack'[j].run \in Starts => i = j
    BY DEF Once
  <2>1. ASSUME NEW k \in DOMAIN stack', k # 1
        PROVE  /\ stack'[k].run \in Starts => ~(run \in Starts)
               /\ stack'[k].req = r /\ r \in Requests =>
                    /\ stack'[k].run \in Finals => ~(run \in Finals)
                    /\ stack'[k].run \in UploadFinals => ~(run \in UploadFinals)
    <3>1. k - 1 \in DOMAIN stack /\ stack'[k] = stack[k - 1]
      BY <1>1, <2>1
    <3>2. \A R : stack[k - 1].run \in R => Has(R)
      BY <3>1 DEF Has
    <3>3. \A R : stack[k - 1].run \in R /\ stack[k - 1].req = r => HasFor(r, R)
      BY <3>1 DEF HasFor
    <3>. QED
      BY <3>1, <3>2, <3>3 DEF Ended, UploadEnded
  <2>2. CASE i = 1 \/ j = 1
    BY <1>1, <2>1, <2>2
  <2>3. CASE i # 1 /\ j # 1
    <3>1. /\ i - 1 \in DOMAIN stack /\ stack'[i] = stack[i - 1]
          /\ j - 1 \in DOMAIN stack /\ stack'[j] = stack[j - 1]
      BY <1>1, <2>3
    <3>2. i - 1 = j - 1 => i = j
      BY <1>1, <1>2
    <3>. QED
      BY <3>1, <3>2 DEF StackInv, Once
  <2>. QED
    BY <2>2, <2>3
<1>5. LogInv'
  <2> SUFFICES ASSUME NEW x \in Requests
               PROVE  /\ log[x] \in Histories /\ uploadLog[x] \in Histories
                      /\ x > sends' => log[x] = <<>> /\ uploadLog[x] = <<>>
                      /\ HasFor(x, FirstEnds)' => log[x] = <<>>
                      /\ HasFor(x, {LastEnd})' => \E k \in Outcomes : log[x] = <<k>>
                      /\ HasFor(x, {UploadEnds})' => uploadLog[x] = <<>>
                      /\ HasFor(x, LastUploadEnds)' => \E k \in Outcomes : uploadLog[x] = <<k>>
    BY DEF LogInv, EndLog, UploadEndLog
  <2>1. /\ log[x] \in Histories /\ uploadLog[x] \in Histories
        /\ x > sends => log[x] = <<>> /\ uploadLog[x] = <<>>
        /\ HasFor(x, FirstEnds) => log[x] = <<>>
        /\ HasFor(x, {LastEnd}) => \E k \in Outcomes : log[x] = <<k>>
        /\ HasFor(x, {UploadEnds}) => uploadLog[x] = <<>>
        /\ HasFor(x, LastUploadEnds) => \E k \in Outcomes : uploadLog[x] = <<k>>
    BY DEF StackInv, LogInv, EndLog, UploadEndLog
  <2>2. x > sends' => x > sends
    BY BoundsAssumption DEF BoundsAssumption, Requests
  <2>3. FirstEnds \subseteq Finals /\ LastEnd \in Finals /\ LastUploadEnds \subseteq UploadFinals
        /\ UploadEnds \in UploadFinals /\ UploadEnds \notin LastUploadEnds
    BY Kinds DEF Finals, UploadFinals
  <2>4. \A R : HasFor(x, R)' <=> (run \in R /\ r = x) \/ HasFor(x, R)
    BY <1>1
  <2>5. HasFor(x, FirstEnds)' => log[x] = <<>>
    BY <2>1, <2>3, <2>4 DEF Ended
  <2>6. HasFor(x, {LastEnd})' => HasFor(x, {LastEnd})
    BY <2>3, <2>4
  <2>7. HasFor(x, {UploadEnds})' => uploadLog[x] = <<>>
    BY <2>1, <2>3, <2>4 DEF UploadEnded
  <2>8. HasFor(x, LastUploadEnds)' => HasFor(x, LastUploadEnds)
    BY <2>3, <2>4
  <2>. QED
    BY <2>1, <2>2, <2>5, <2>6, <2>7, <2>8
<1>6. \A x \in Requests :
        /\ Ended(x)' <=> Ended(x) \/ (x = r /\ run \in Finals)
        /\ UploadEnded(x)' <=> UploadEnded(x) \/ (x = r /\ run \in UploadFinals)
        /\ Closes(x)' <=> Closes(x) \/ (x = r /\ run \in Finals)
  BY <1>1 DEF Ended, UploadEnded, Closes
<1>. QED
  BY <1>1, <1>3, <1>4, <1>5, <1>6 DEF StackInv

\* A method returns, or is left by what a listener threw.
LEMMA PopInv ==
    ASSUME StackOK, StackInv, UNCHANGED <<log, uploadLog, sends>>,
           stack # <<>>, stack' = Tail(stack)
    PROVE  /\ StackInv'
           /\ \A R : Has(R) <=> Top.run \in R \/ Has(R)'
           /\ Has(Starts)' => ~(Top.run \in Starts)
           /\ \A r \in Requests : Top.req = r /\ Top.run \in Finals => ~HasFor(r, Finals)'
           /\ \A x \in Requests :
                /\ Ended(x)' => Ended(x)
                /\ UploadEnded(x)' => UploadEnded(x)
           /\ Top.run \notin Finals \cup UploadFinals =>
                \A x \in Requests :
                  /\ Ended(x)' <=> Ended(x)
                  /\ UploadEnded(x)' <=> UploadEnded(x)
                  /\ Closes(x)' <=> Closes(x)
           /\ Top.by # "program" => stack' = <<>>
<1>1. /\ 1 \in DOMAIN stack /\ Len(stack) = Len(stack') + 1
      /\ \A i \in DOMAIN stack' : i + 1 \in DOMAIN stack /\ stack'[i] = stack[i + 1]
      /\ \A R : Has(R) <=> Top.run \in R \/ Has(R)'
      /\ \A x, R : HasFor(x, R) <=> (Top.run \in R /\ Top.req = x) \/ HasFor(x, R)'
  BY PopFrames
<1>2. stack' \in Seq(Frames) /\ DOMAIN stack' = 1..Len(stack') /\ Len(stack') \in Nat
  BY TopType
<1>3. FrameInv'
  <2> SUFFICES ASSUME NEW i \in DOMAIN stack'
               PROVE  /\ stack'[i].run \in Runs /\ stack'[i].req <= sends
                      /\ stack'[i].run \in Acts => stack'[i].req = sends /\ stack'[i].req \in Requests
                      /\ stack'[i].by # "program" => i = Len(stack')
                      /\ stack'[i].by \in {"request", "writer"} => stack'[i].req \in Requests
                      /\ stack'[i].run = SetsDone => stack'[i].by = "request"
    BY DEF FrameInv
  <2>1. i + 1 = Len(stack) => i = Len(stack')
    BY <1>1, <1>2
  <2>. QED
    BY <1>1, <2>1 DEF StackInv, FrameInv
<1>4. Once'
  <2> SUFFICES ASSUME NEW i \in DOMAIN stack', NEW j \in DOMAIN stack'
               PROVE  /\ stack'[i].req = stack'[j].req /\ stack'[i].req \in Requests =>
                           /\ stack'[i].run \in Finals /\ stack'[j].run \in Finals => i = j
                           /\ stack'[i].run \in UploadFinals /\ stack'[j].run \in UploadFinals => i = j
                      /\ stack'[i].run \in Starts /\ stack'[j].run \in Starts => i = j
    BY DEF Once
  <2>1. i + 1 = j + 1 => i = j
    BY <1>2
  <2>. QED
    BY <1>1, <2>1 DEF StackInv, Once
<1>5. LogInv'
  <2>1. \A x, R : HasFor(x, R)' => HasFor(x, R)
    BY <1>1
  <2>. QED
    BY <2>1 DEF StackInv, LogInv, EndLog, UploadEndLog
<1>6. \A k \in DOMAIN stack' : k + 1 # 1
  BY <1>2
<1>7. Has(Starts)' => ~(Top.run \in Starts)
  BY <1>1, <1>6 DEF StackInv, Once, Has, Top
<1>8. \A r \in Requests : Top.req = r /\ Top.run \in Finals => ~HasFor(r, Finals)'
  <2> SUFFICES ASSUME Top.req \in Requests, Top.run \in Finals, NEW k \in DOMAIN stack',
                      stack'[k].run \in Finals, stack'[k].req = Top.req
               PROVE  FALSE
    BY DEF HasFor
  <2>1. k + 1 \in DOMAIN stack /\ stack'[k] = stack[k + 1] /\ k + 1 # 1
    BY <1>1, <1>6
  <2>. QED
    BY <1>1, <2>1 DEF StackInv, Once, Top
<1>9. \A x \in Requests : (Ended(x)' => Ended(x)) /\ (UploadEnded(x)' => UploadEnded(x))
  BY <1>1 DEF Ended, UploadEnded
<1>10. Top.run \notin Finals \cup UploadFinals =>
         \A x \in Requests :
           /\ Ended(x)' <=> Ended(x)
           /\ UploadEnded(x)' <=> UploadEnded(x)
           /\ Closes(x)' <=> Closes(x)
  BY <1>1 DEF Ended, UploadEnded, Closes
<1>11. Top.by # "program" => stack' = <<>>
  BY <1>1, <1>2 DEF StackInv, FrameInv, Top
<1>. QED
  BY <1>1, <1>3, <1>4, <1>5, <1>7, <1>8, <1>9, <1>10, <1>11 DEF StackInv

\* The innermost method goes on, with `run` left to do.
Goes(run) ==
    /\ stack # <<>>
    /\ stack' = <<[Top EXCEPT !.run = run]>> \o Tail(stack)
    /\ UNCHANGED sends

LEMMA TopInv ==
    ASSUME StackOK, StackInv, NEW run \in Runs, Goes(run),
           run \in Acts => Top.run \in Acts,
           run \in Starts => Top.run \in Starts,
           run \in Finals => Top.run \in Finals,
           run \in UploadFinals =>
             Top.run \in UploadFinals \/ ~HasFor(Top.req, UploadFinals),
           run # SetsDone
    PROVE  /\ FrameInv' /\ Once'
           /\ \A r \in Requests : Top.req = r =>
                /\ Top.run \in Finals =>
                     \A R \in SUBSET Finals : HasFor(r, R)' => run \in R
                /\ Top.run \in UploadFinals \/ run \in UploadFinals =>
                     \A R \in SUBSET UploadFinals : HasFor(r, R)' => run \in R
           /\ Top.run = SetsDone /\ Top.req \in Requests => ~Has({SetsDone})'
<1>. stack # <<>> /\ sends' = sends
  BY DEF Goes
<1>. USE DEF StackInv
<1>1. /\ DOMAIN stack' = DOMAIN stack /\ Len(stack') = Len(stack) /\ 1 \in DOMAIN stack
      /\ stack'[1].run = run /\ stack'[1].req = Top.req /\ stack'[1].by = Top.by
      /\ \A i \in DOMAIN stack : i # 1 => stack'[i] = stack[i]
  BY TopFrames DEF Goes
<1>2. FrameInv'
  <2> SUFFICES ASSUME NEW i \in DOMAIN stack'
               PROVE  /\ stack'[i].run \in Runs /\ stack'[i].req <= sends
                      /\ stack'[i].run \in Acts => stack'[i].req = sends /\ stack'[i].req \in Requests
                      /\ stack'[i].by # "program" => i = Len(stack')
                      /\ stack'[i].by \in {"request", "writer"} => stack'[i].req \in Requests
                      /\ stack'[i].run = SetsDone => stack'[i].by = "request"
    BY DEF FrameInv
  <2>1. CASE i = 1
    BY <1>1, <2>1 DEF FrameInv, Top
  <2>2. CASE i # 1
    BY <1>1, <2>2 DEF FrameInv
  <2>. QED
    BY <2>1, <2>2
<1>3. ASSUME NEW i \in DOMAIN stack, i # 1, Top.req \in Requests, stack[i].req = Top.req
      PROVE  /\ Top.run \in Finals => stack[i].run \notin Finals
             /\ Top.run \in UploadFinals \/ run \in UploadFinals => stack[i].run \notin UploadFinals
  BY <1>1, <1>3 DEF Once, Top, HasFor
<1>4. ASSUME NEW i \in DOMAIN stack, i # 1, run \in Starts
      PROVE  stack[i].run \notin Starts
  BY <1>1, <1>4 DEF Once, Top
<1>5. Once'
  <2> SUFFICES ASSUME NEW i \in DOMAIN stack, NEW j \in DOMAIN stack
               PROVE  /\ stack'[i].req = stack'[j].req /\ stack'[i].req \in Requests =>
                           /\ stack'[i].run \in Finals /\ stack'[j].run \in Finals => i = j
                           /\ stack'[i].run \in UploadFinals /\ stack'[j].run \in UploadFinals => i = j
                      /\ stack'[i].run \in Starts /\ stack'[j].run \in Starts => i = j
    BY <1>1 DEF Once
  <2>1. CASE i = 1 /\ j # 1
    BY <1>1, <1>3, <1>4, <2>1
  <2>2. CASE j = 1 /\ i # 1
    BY <1>1, <1>3, <1>4, <2>2
  <2>3. CASE i # 1 /\ j # 1
    BY <1>1, <2>3 DEF Once
  <2>. QED
    BY <2>1, <2>2, <2>3
<1>6. ASSUME NEW r \in Requests, Top.req = r, Top.run \in Finals, NEW R \in SUBSET Finals,
             HasFor(r, R)'
      PROVE  run \in R
  <2>1. PICK i \in DOMAIN stack : stack'[i].run \in R /\ stack'[i].req = r
    BY <1>1, <1>6 DEF HasFor
  <2>. QED
    BY <1>1, <1>3, <1>6, <2>1
<1>7. ASSUME NEW r \in Requests, Top.req = r, Top.run \in UploadFinals \/ run \in UploadFinals,
             NEW R \in SUBSET UploadFinals, HasFor(r, R)'
      PROVE  run \in R
  <2>1. PICK i \in DOMAIN stack : stack'[i].run \in R /\ stack'[i].req = r
    BY <1>1, <1>7 DEF HasFor
  <2>. QED
    BY <1>1, <1>3, <1>7, <2>1
<1>8. Top.run = SetsDone /\ Top.req \in Requests => ~Has({SetsDone})'
  <2> SUFFICES ASSUME Top.run = SetsDone, Top.req \in Requests,
                      NEW i \in DOMAIN stack, stack'[i].run = SetsDone
               PROVE  FALSE
    BY <1>1 DEF Has
  <2>1. SetsDone \in Acts /\ SetsDone \in Finals
    BY DEF Acts, Finals, FirstEnds
  <2>2. i # 1 /\ stack[i].run = SetsDone
    BY <1>1
  <2>3. stack[i].req = sends /\ Top.req = sends
    BY <1>1, <2>1, <2>2 DEF FrameInv, Top
  <2>. QED
    BY <1>3, <2>1, <2>2, <2>3
<1>. QED
  BY <1>2, <1>5, <1>6, <1>7, <1>8

LEMMA Appends ==
    \A k \in Outcomes : /\ Append(<<>>, k) = <<k>>
                        /\ Append(<<k>>, "loadend") = <<k, "loadend">>
<1> SUFFICES ASSUME NEW k \in Outcomes
             PROVE  Append(<<>>, k) = <<k>> /\ Append(<<k>>, "loadend") = <<k, "loadend">>
  OBVIOUS
<1>1. k \in Endings /\ "loadend" \in Endings
  BY DEF Outcomes, Endings
<1>2. <<>> \in Seq(Endings) /\ <<k>> \in Seq(Endings) /\ <<k, "loadend">> \in Seq(Endings)
  BY <1>1
<1>3. Append(<<>>, k) = <<k>>
  <2>1. Append(<<>>, k) \in Seq(Endings) /\ Len(Append(<<>>, k)) = 1 /\ Append(<<>>, k)[1] = k
    BY <1>1, <1>2
  <2>. QED
    BY <1>2, <2>1, SeqEqual
<1>4. Append(<<k>>, "loadend") = <<k, "loadend">>
  <2> DEFINE s == Append(<<k>>, "loadend")
  <2>1. s \in Seq(Endings) /\ Len(s) = 2 /\ s[1] = k /\ s[2] = "loadend"
    BY <1>1, <1>2
  <2>2. \A i \in 1..2 : i = 1 \/ i = 2
    OBVIOUS
  <2>. HIDE DEF s
  <2>3. s = <<k, "loadend">>
    BY <1>2, <2>1, <2>2, SeqEqual
  <2>. QED
    BY <2>3 DEF s
<1>. QED
  BY <1>3, <1>4

\* What is left to report stays what it was.
LEMMA EndStays ==
    ASSUME StackOK, StackInv, NEW run, Goes(run), NEW r \in Requests,
           log'[r] = log[r],
           Top.req = r => /\ run \in FirstEnds <=> Top.run \in FirstEnds
                          /\ run = LastEnd <=> Top.run = LastEnd
    PROVE  /\ EndLog(r)'
           /\ Ended(r)' <=> Ended(r)
           /\ Closes(r)' <=> Closes(r)
<1>1. \A R : (Top.req = r => (run \in R <=> Top.run \in R)) => (HasFor(r, R)' <=> HasFor(r, R))
  BY TopFrames DEF Goes
<1>2. /\ HasFor(r, FirstEnds)' <=> HasFor(r, FirstEnds)
      /\ HasFor(r, {LastEnd})' <=> HasFor(r, {LastEnd})
      /\ HasFor(r, Finals)' <=> HasFor(r, Finals)
  <2>1. Top.req = r => (run \in {LastEnd} <=> Top.run \in {LastEnd})
    OBVIOUS
  <2>2. Top.req = r => (run \in Finals <=> Top.run \in Finals)
    BY DEF Finals
  <2>. QED
    BY <1>1, <2>1, <2>2
<1>. QED
  BY <1>2 DEF Goes, StackInv, LogInv, EndLog, Ended, Closes

LEMMA UploadStays ==
    ASSUME StackOK, StackInv, NEW run, Goes(run), NEW r \in Requests,
           uploadLog'[r] = uploadLog[r],
           Top.req = r => /\ run = UploadEnds <=> Top.run = UploadEnds
                          /\ run \in LastUploadEnds <=> Top.run \in LastUploadEnds
    PROVE  /\ UploadEndLog(r)'
           /\ UploadEnded(r)' <=> UploadEnded(r)
<1>1. \A R : (Top.req = r => (run \in R <=> Top.run \in R)) => (HasFor(r, R)' <=> HasFor(r, R))
  BY TopFrames DEF Goes
<1>2. /\ HasFor(r, {UploadEnds})' <=> HasFor(r, {UploadEnds})
      /\ HasFor(r, LastUploadEnds)' <=> HasFor(r, LastUploadEnds)
      /\ HasFor(r, UploadFinals)' <=> HasFor(r, UploadFinals)
  <2>1. Top.req = r => (run \in {UploadEnds} <=> Top.run \in {UploadEnds})
    OBVIOUS
  <2>2. Top.req = r => (run \in UploadFinals <=> Top.run \in UploadFinals)
    BY DEF UploadFinals
  <2>. QED
    BY <1>1, <2>1, <2>2
<1>. QED
  BY <1>2 DEF Goes, StackInv, LogInv, UploadEndLog, UploadEnded

\* The innermost frame is one of those that have something left to do for its
\* request.
LEMMA TopHas ==
    ASSUME StackOK, stack # <<>>, NEW r, Top.req = r
    PROVE  \A R : Top.run \in R => Has(R) /\ HasFor(r, R)
<1>1. 1 \in DOMAIN stack /\ Top = stack[1]
  BY DEF StackOK, Top
<1>. QED
  BY <1>1 DEF Has, HasFor

LEMMA NowHas ==
    ASSUME StackOK, NEW run, Goes(run), NEW r, Top.req = r
    PROVE  \A R : run \in R => HasFor(r, R)'
<1>1. 1 \in DOMAIN stack' /\ stack'[1].run = run /\ stack'[1].req = r
  BY TopFrames DEF Goes
<1>. QED
  BY <1>1 DEF HasFor

\* The request reports its first final event.
LEMMA EndAdvances ==
    ASSUME StackOK, StackInv, Goes(LastEnd), NEW r \in Requests, Top.req = r,
           r <= sends, sends \in Nat,
           Top.run \in FirstEnds, NEW k \in Outcomes, log'[r] = Append(log[r], k),
           \A R \in SUBSET Finals : HasFor(r, R)' => LastEnd \in R
    PROVE  EndLog(r)' /\ Ended(r)' /\ Ended(r) /\ Closes(r)' /\ Closes(r)
<1>1. FirstEnds \subseteq Finals /\ LastEnd \in Finals /\ LastEnd \notin FirstEnds
  BY Kinds DEF Finals
<1>2. HasFor(r, FirstEnds) /\ HasFor(r, Finals)
  BY <1>1, TopHas DEF Goes
<1>3. log[r] = <<>> /\ log'[r] = <<k>>
  BY <1>2, Appends DEF StackInv, LogInv, EndLog
<1>4. <<k>> \in Histories /\ <<k>> # <<>>
  BY DEF Histories
<1>5. HasFor(r, Finals)'
  BY <1>1, NowHas
<1>6. ~HasFor(r, FirstEnds)'
  BY <1>1
<1>7. ~(r > sends) /\ sends' = sends
  BY BoundsAssumption DEF Goes, BoundsAssumption, Requests, StackInv, FrameInv
<1>. QED
  BY <1>2, <1>3, <1>4, <1>5, <1>6, <1>7 DEF EndLog, Ended, Closes

\* It reports its last one.
LEMMA EndCloses ==
    ASSUME StackOK, StackInv, NEW run, Goes(run), NEW r \in Requests, Top.req = r,
           r <= sends, sends \in Nat,
           Top.run = LastEnd, run \notin Finals, log'[r] = Append(log[r], "loadend"),
           \A R \in SUBSET Finals : HasFor(r, R)' => run \in R
    PROVE  EndLog(r)' /\ Ended(r)' /\ Ended(r) /\ Closes(r)' /\ Closes(r)
<1>1. FirstEnds \subseteq Finals /\ LastEnd \in Finals
  BY DEF Finals
<1>2. HasFor(r, {LastEnd}) /\ HasFor(r, Finals)
  BY <1>1, TopHas DEF Goes
<1>3. PICK k \in Outcomes : log[r] = <<k>>
  BY <1>2 DEF StackInv, LogInv, EndLog
<1>4. log'[r] = <<k, "loadend">> /\ log'[r] \in Histories /\ log'[r] # <<>>
  BY <1>3, Appends DEF Histories
<1>5. Contains(log'[r], "loadend")
  BY <1>4 DEF Contains
<1>6. ~HasFor(r, FirstEnds)' /\ ~HasFor(r, {LastEnd})'
  <2>1. {LastEnd} \in SUBSET Finals /\ FirstEnds \in SUBSET Finals
    BY <1>1
  <2>. QED
    BY <1>1, <2>1
<1>7. ~(r > sends) /\ sends' = sends
  BY BoundsAssumption DEF Goes, BoundsAssumption, Requests, StackInv, FrameInv
<1>. QED
  BY <1>2, <1>4, <1>5, <1>6, <1>7 DEF EndLog, Ended, Closes

LEMMA UploadAdvances ==
    ASSUME StackOK, StackInv, NEW run \in LastUploadEnds, Goes(run),
           NEW r \in Requests, Top.req = r,
           r <= sends, sends \in Nat,
           Top.run = UploadEnds \/ ~UploadEnded(r),
           NEW k \in Outcomes, uploadLog'[r] = Append(uploadLog[r], k),
           \A R \in SUBSET UploadFinals : HasFor(r, R)' => run \in R
    PROVE  UploadEndLog(r)' /\ UploadEnded(r)' /\ (Top.run = UploadEnds => UploadEnded(r))
<1>1. LastUploadEnds \subseteq UploadFinals /\ UploadEnds \in UploadFinals
      /\ UploadEnds \notin LastUploadEnds
  BY Kinds DEF UploadFinals
<1>2. Top.run = UploadEnds => HasFor(r, {UploadEnds}) /\ HasFor(r, UploadFinals)
  BY <1>1, TopHas DEF Goes
<1>3. uploadLog[r] = <<>> /\ uploadLog'[r] = <<k>>
  BY <1>2, Appends DEF StackInv, LogInv, UploadEndLog, UploadEnded
<1>4. <<k>> \in Histories /\ <<k>> # <<>>
  BY DEF Histories
<1>5. ~HasFor(r, {UploadEnds})'
  <2>1. {UploadEnds} \in SUBSET UploadFinals
    BY <1>1
  <2>. QED
    BY <1>1, <2>1
<1>6. ~(r > sends) /\ sends' = sends
  BY BoundsAssumption DEF Goes, BoundsAssumption, Requests, StackInv, FrameInv
<1>. QED
  BY <1>2, <1>3, <1>4, <1>5, <1>6 DEF UploadEndLog, UploadEnded

LEMMA UploadCloses ==
    ASSUME StackOK, StackInv, NEW run, Goes(run), NEW r \in Requests, Top.req = r,
           r <= sends, sends \in Nat,
           Top.run \in LastUploadEnds, run \notin UploadFinals,
           uploadLog'[r] = Append(uploadLog[r], "loadend"),
           \A R \in SUBSET UploadFinals : HasFor(r, R)' => run \in R
    PROVE  UploadEndLog(r)' /\ UploadEnded(r)' /\ UploadEnded(r)
<1>1. LastUploadEnds \subseteq UploadFinals /\ UploadEnds \in UploadFinals
  BY DEF UploadFinals
<1>2. HasFor(r, LastUploadEnds) /\ HasFor(r, UploadFinals)
  BY <1>1, TopHas DEF Goes
<1>3. PICK k \in Outcomes : uploadLog[r] = <<k>>
  BY <1>2 DEF StackInv, LogInv, UploadEndLog
<1>4. uploadLog'[r] = <<k, "loadend">> /\ uploadLog'[r] \in Histories /\ uploadLog'[r] # <<>>
  BY <1>3, Appends DEF Histories
<1>5. ~HasFor(r, {UploadEnds})' /\ ~HasFor(r, LastUploadEnds)'
  <2>1. {UploadEnds} \in SUBSET UploadFinals /\ LastUploadEnds \in SUBSET UploadFinals
    BY <1>1
  <2>. QED
    BY <1>1, <2>1
<1>6. ~(r > sends) /\ sends' = sends
  BY BoundsAssumption DEF Goes, BoundsAssumption, Requests, StackInv, FrameInv
<1>. QED
  BY <1>2, <1>4, <1>5, <1>6 DEF UploadEndLog, UploadEnded

-----------------------------------------------------------------------------
(* What the steps of the methods leave of the frames. *)

\* No request, and no upload, gains or loses the end that it has or will report.
EndsStay ==
    \A r \in Requests : /\ Ended(r)' <=> Ended(r)
                        /\ UploadEnded(r)' <=> UploadEnded(r)
                        /\ Closes(r)' <=> Closes(r)

\* No method has more to do than before.
ActsStay == /\ Has(Starts)' <=> Has(Starts)
            /\ Has({SetsDone})' <=> Has({SetsDone})
            /\ Has(Acts)' => Has(Acts)

LEMMA TopFacts ==
    ASSUME StackOK, StackInv, stack # <<>>
    PROVE  /\ Top.run \in Runs /\ Top.req \in Nat /\ Top.req <= sends
           /\ Top.run \in Acts => Top.req = sends /\ Top.req \in Requests
           /\ Top.by \in {"request", "writer"} => Top.req \in Requests
           /\ Top.run = SetsDone => Top.by = "request"
           /\ \A R : Top.run \in R => Has(R)
<1>1. 1 \in DOMAIN stack /\ Top = stack[1]
  BY DEF StackOK, Top
<1>2. Top.req \in Nat
  BY TopType, BoundsAssumption DEF BoundsAssumption
<1>. QED
  BY <1>1, <1>2 DEF StackInv, FrameInv, Has

\* The parts of the invariant when the innermost method goes on.
LEMMA Assemble ==
    ASSUME StackOK, StackInv, NEW run \in Runs, Goes(run), FrameInv', Once',
           \A r \in Requests : EndLog(r)' /\ UploadEndLog(r)',
           run \in Starts <=> Top.run \in Starts,
           run = SetsDone <=> Top.run = SetsDone,
           run \in Acts => Top.run \in Acts
    PROVE  StackInv' /\ ActsStay
<1>1. LogInv'
  BY DEF LogInv
<1>2. \A R : (run \in R <=> Top.run \in R) => (Has(R)' <=> Has(R))
  BY TopFrames DEF Goes
<1>3. run \in {SetsDone} <=> Top.run \in {SetsDone}
  OBVIOUS
<1>4. Has(Acts)' => Has(Acts)
  <2>1. CASE Top.run \in Acts
    BY <2>1, TopFacts DEF Goes
  <2>2. CASE Top.run \notin Acts
    BY <1>2, <2>2
  <2>. QED
    BY <2>1, <2>2
<1>. QED
  BY <1>1, <1>2, <1>3, <1>4 DEF StackInv, ActsStay

\* A frame that has an event of the request to fire, or its last two, fires it.
LEMMA FireFirstEnd ==
    ASSUME StackOK, StackInv, sends \in Nat, Goes(LastEnd), Top.run \in FirstEnds,
           Top.run \notin UploadFinals \cup {SetsDone},
           NEW k \in Outcomes, Dispatch(Fire(k), Top.req)
    PROVE  StackInv' /\ EndsStay /\ ActsStay
<1>. k \in Endings
  BY DEF Outcomes, Endings
<1>1. /\ LastEnd \in Runs /\ LastEnd \in Finals /\ Top.run \in Finals
      /\ LastEnd \notin Acts \cup Starts \cup UploadFinals \cup {SetsDone}
      /\ Top.run \notin Starts /\ Top.run # LastEnd
      /\ UploadEnds \in UploadFinals /\ LastUploadEnds \subseteq UploadFinals
  BY Kinds DEF Runs, Finals, Acts, UploadFinals, FirstEnds
<1>2. FrameInv' /\ Once' /\ \A r \in Requests : Top.req = r =>
        \A R \in SUBSET Finals : HasFor(r, R)' => LastEnd \in R
  BY <1>1, TopInv
<1>3. Top.req \in Nat /\ Top.req <= sends
  BY TopFacts DEF Goes
<1>4. ASSUME NEW r \in Requests
      PROVE  UploadEndLog(r)' /\ (UploadEnded(r)' <=> UploadEnded(r))
  <2>1. uploadLog'[r] = uploadLog[r]
    BY FireLogs
  <2>. QED
    BY <1>1, <2>1, UploadStays
<1>5. ASSUME NEW r \in Requests
      PROVE  EndLog(r)' /\ (Ended(r)' <=> Ended(r)) /\ (Closes(r)' <=> Closes(r))
  <2>1. CASE Top.req = r
    <3>1. log'[r] = Append(log[r], k)
      BY <2>1, FireLogs DEF StackOK
    <3>. QED
      BY <1>2, <1>3, <2>1, <3>1, EndAdvances
  <2>2. CASE Top.req # r
    <3>1. log'[r] = log[r]
      <4>1. log' = log \/ log' = [log EXCEPT ![Top.req] = Append(@, k)]
        BY FireLogs
      <4>. QED
        BY <2>2, <4>1 DEF StackOK
    <3>. QED
      BY <2>2, <3>1, EndStays
  <2>. QED
    BY <2>1, <2>2
<1>6. EndsStay
  BY <1>4, <1>5 DEF EndsStay
<1>. QED
  BY <1>1, <1>2, <1>4, <1>5, <1>6, Assemble

LEMMA FireLastEnd ==
    ASSUME StackOK, StackInv, sends \in Nat, Goes(<<>>), Top.run = LastEnd,
           Dispatch(Fire("loadend"), Top.req)
    PROVE  StackInv' /\ EndsStay /\ ActsStay
<1>. "loadend" \in Endings
  BY DEF Endings
<1>1. /\ LastEnd \in Finals /\ <<>> \in Runs
      /\ <<>> \notin Acts \cup Finals \cup Starts \cup UploadFinals \cup {SetsDone}
      /\ LastEnd \notin Acts \cup Starts \cup UploadFinals \cup {SetsDone}
      /\ UploadEnds \in UploadFinals /\ LastUploadEnds \subseteq UploadFinals
  BY Kinds DEF Runs, Finals, Acts, UploadFinals, FirstEnds
<1>2. FrameInv' /\ Once' /\ \A r \in Requests : Top.req = r =>
        \A R \in SUBSET Finals : HasFor(r, R)' => <<>> \in R
  BY <1>1, TopInv
<1>3. Top.req \in Nat /\ Top.req <= sends
  BY TopFacts DEF Goes
<1>4. ASSUME NEW r \in Requests
      PROVE  UploadEndLog(r)' /\ (UploadEnded(r)' <=> UploadEnded(r))
  <2>1. uploadLog'[r] = uploadLog[r]
    BY FireLogs
  <2>. QED
    BY <1>1, <2>1, UploadStays
<1>5. ASSUME NEW r \in Requests
      PROVE  EndLog(r)' /\ (Ended(r)' <=> Ended(r)) /\ (Closes(r)' <=> Closes(r))
  <2>1. CASE Top.req = r
    <3>1. log'[r] = Append(log[r], "loadend")
      BY <2>1, FireLogs DEF StackOK
    <3>. QED
      BY <1>1, <1>2, <1>3, <2>1, <3>1, EndCloses
  <2>2. CASE Top.req # r
    <3>1. log'[r] = log[r]
      BY <2>2, FireLogs, SMTT(20) DEF StackOK
    <3>. QED
      BY <2>2, <3>1, EndStays
  <2>. QED
    BY <2>1, <2>2
<1>6. EndsStay
  BY <1>4, <1>5 DEF EndsStay
<1>. QED
  BY <1>1, <1>2, <1>4, <1>5, <1>6, Assemble

\* The load event of an upload.
LEMMA FireUploadLoad ==
    ASSUME StackOK, StackInv, sends \in Nat, Goes(LastUploadEnd), Top.run = UploadEnds,
           Dispatch(FireUpload("load"), Top.req)
    PROVE  StackInv' /\ EndsStay /\ ActsStay
<1>. "load" \in Endings /\ "load" \in Outcomes
  BY DEF Endings, Outcomes
<1>1. /\ LastUploadEnd \in LastUploadEnds /\ LastUploadEnd \in Runs
      /\ {LastUploadEnd, UploadEnds} \subseteq UploadFinals
      /\ LastUploadEnd \notin Acts \cup Finals \cup FirstEnds \cup Starts \cup {SetsDone, LastEnd}
      /\ UploadEnds \notin Acts \cup Finals \cup FirstEnds \cup Starts \cup {SetsDone, LastEnd}
  BY Kinds DEF Runs, Finals, Acts, UploadFinals, FirstEnds, LastUploadEnds
<1>2. FrameInv' /\ Once' /\ \A r \in Requests : Top.req = r =>
        \A R \in SUBSET UploadFinals : HasFor(r, R)' => LastUploadEnd \in R
  BY <1>1, TopInv
<1>3. Top.req \in Nat /\ Top.req <= sends
  BY TopFacts DEF Goes
<1>4. ASSUME NEW r \in Requests
      PROVE  EndLog(r)' /\ (Ended(r)' <=> Ended(r)) /\ (Closes(r)' <=> Closes(r))
  <2>1. log'[r] = log[r]
    BY FireUploadLogs
  <2>. QED
    BY <1>1, <2>1, EndStays
<1>5. ASSUME NEW r \in Requests
      PROVE  UploadEndLog(r)' /\ (UploadEnded(r)' <=> UploadEnded(r))
  <2>1. CASE Top.req = r
    <3>1. uploadLog'[r] = Append(uploadLog[r], "load")
      BY <2>1, FireUploadLogs DEF StackOK
    <3>. QED
      BY <1>1, <1>2, <1>3, <2>1, <3>1, UploadAdvances
  <2>2. CASE Top.req # r
    <3>1. uploadLog'[r] = uploadLog[r]
      BY <2>2, FireUploadLogs DEF StackOK
    <3>. QED
      BY <2>2, <3>1, UploadStays
  <2>. QED
    BY <2>1, <2>2
<1>6. EndsStay
  BY <1>4, <1>5 DEF EndsStay
<1>. QED
  BY <1>1, <1>2, <1>4, <1>5, <1>6, Assemble

\* The loadend event of an upload, which the events of the request may follow.
LEMMA FireUploadEnd ==
    ASSUME StackOK, StackInv, sends \in Nat, NEW run \in Runs, Goes(run),
           Top.run \in LastUploadEnds, run \notin UploadFinals,
           Top.run \in Finals <=> run \in FirstEnds,
           Top.run \in Finals => Top.run \in FirstEnds,
           run \notin Acts \cup {LastEnd}, Top.run \notin Acts,
           Dispatch(FireUpload("loadend"), Top.req)
    PROVE  StackInv' /\ EndsStay /\ ActsStay
<1>. "loadend" \in Endings
  BY DEF Endings
<1>1. /\ Top.run \in UploadFinals
      /\ FirstEnds \subseteq Finals /\ (run \in Finals <=> run \in FirstEnds)
      /\ Starts \subseteq Acts /\ SetsDone \in Acts
      /\ LastEnd \in Finals /\ LastEnd \notin FirstEnds
  BY Kinds DEF Runs, Finals, Acts, UploadFinals
<1>2. FrameInv' /\ Once' /\ \A r \in Requests : Top.req = r =>
        \A R \in SUBSET UploadFinals : HasFor(r, R)' => run \in R
  BY <1>1, TopInv
<1>3. Top.req \in Nat /\ Top.req <= sends
  BY TopFacts DEF Goes
<1>4. ASSUME NEW r \in Requests
      PROVE  EndLog(r)' /\ (Ended(r)' <=> Ended(r)) /\ (Closes(r)' <=> Closes(r))
  <2>1. log'[r] = log[r]
    BY FireUploadLogs
  <2>. QED
    BY <1>1, <2>1, EndStays
<1>5. ASSUME NEW r \in Requests
      PROVE  UploadEndLog(r)' /\ (UploadEnded(r)' <=> UploadEnded(r))
  <2>1. CASE Top.req = r
    <3>1. uploadLog'[r] = Append(uploadLog[r], "loadend")
      BY <2>1, FireUploadLogs DEF StackOK
    <3>. QED
      BY <1>1, <1>2, <1>3, <2>1, <3>1, UploadCloses
  <2>2. CASE Top.req # r
    <3>1. uploadLog'[r] = uploadLog[r]
      BY <2>2, FireUploadLogs DEF StackOK
    <3>. QED
      BY <2>2, <3>1, UploadStays
  <2>. QED
    BY <2>1, <2>2
<1>6. EndsStay
  BY <1>4, <1>5 DEF EndsStay
<1>. QED
  BY <1>1, <1>2, <1>4, <1>5, <1>6, Assemble

\* An event that is not one of the end.
LEMMA FireOther ==
    ASSUME StackOK, StackInv, NEW run \in Runs, Goes(run), UNCHANGED <<log, uploadLog>>,
           run \notin Finals \cup UploadFinals \cup {SetsDone},
           Top.run \notin Finals \cup UploadFinals,
           run \in Starts <=> Top.run \in Starts,
           run \in Acts => Top.run \in Acts
    PROVE  StackInv' /\ EndsStay /\ ActsStay
<1>1. /\ FirstEnds \subseteq Finals /\ LastEnd \in Finals /\ SetsDone \in Finals
      /\ UploadEnds \in UploadFinals /\ LastUploadEnds \subseteq UploadFinals
  BY DEF Finals, UploadFinals, FirstEnds
<1>2. FrameInv' /\ Once'
  BY TopInv
<1>3. \A r \in Requests :
        /\ EndLog(r)' /\ (Ended(r)' <=> Ended(r)) /\ (Closes(r)' <=> Closes(r))
        /\ UploadEndLog(r)' /\ (UploadEnded(r)' <=> UploadEnded(r))
  BY <1>1, EndStays, UploadStays
<1>4. EndsStay
  BY <1>3 DEF EndsStay
<1>. QED
  BY <1>1, <1>2, <1>3, <1>4, Assemble

LEMMA JoinOne ==
    ASSUME NEW a \in Ops, NEW t \in Seq(Ops)
    PROVE  /\ <<a>> \o t \in Seq(Ops) /\ <<a>> \o t # <<>>
           /\ Head(<<a>> \o t) = a /\ Tail(<<a>> \o t) = t
<1> DEFINE s == <<a>> \o t
<1>1. s \in Seq(Ops) /\ Len(s) = Len(t) + 1 /\ s[1] = a
      /\ \A i \in 1..Len(t) : s[i + 1] = t[i]
  OBVIOUS
<1>. HIDE DEF s
<1>2. s # <<>> /\ Head(s) = a
  BY <1>1
<1>3. Tail(s) = t
  <2>1. Tail(s) \in Seq(Ops) /\ Len(Tail(s)) = Len(t)
    BY <1>1, <1>2
  <2>2. \A i \in 1..Len(Tail(s)) : Tail(s)[i] = t[i]
    BY <1>1, <1>2, <2>1
  <2>. QED
    BY <2>1, <2>2, SeqEqual
<1>. QED
  BY <1>1, <1>2, <1>3 DEF s

LEMMA JoinTwo ==
    ASSUME NEW a \in Ops, NEW b \in Ops, NEW c \in Ops, NEW d \in Ops
    PROVE  <<a, b>> \o <<c, d>> = <<a, b, c, d>>
<1> DEFINE s == <<a, b>> \o <<c, d>>
           t == <<a, b, c, d>>
<1>1. s \in Seq(Ops) /\ Len(s) = 4 /\ s[1] = a /\ s[2] = b /\ s[3] = c /\ s[4] = d
  OBVIOUS
<1>2. t \in Seq(Ops) /\ Len(t) = 4 /\ t[1] = a /\ t[2] = b /\ t[3] = c /\ t[4] = d
  OBVIOUS
<1>3. \A i \in 1..4 : i = 1 \/ i = 2 \/ i = 3 \/ i = 4
  OBVIOUS
<1>. HIDE DEF s, t
<1>4. s = t
  BY <1>1, <1>2, <1>3, SeqEqual
<1>. QED
  BY <1>4 DEF s, t

LEMMA ReturnFrames ==
    ASSUME StackOK, StackInv, sends \in Nat, ListenersReturn
    PROVE  StackInv' /\ EndsStay /\ ActsStay
<1>. stack # <<>> /\ Continue(Top.run) /\ sends' = sends
  BY DEF ListenersReturn, netVars
<1>. Top.run \in Runs
  BY TopFacts
<1>1. CASE Top.run = <<>>
  <2>1. stack' = Tail(stack) /\ UNCHANGED <<log, uploadLog, sends>>
    BY <1>1 DEF Continue
  <2>2. Top.run \notin Finals \cup UploadFinals \cup Starts \cup {SetsDone} \cup Acts
    BY <1>1, Kinds DEF Acts
  <2>3. StackInv' /\ \A R : Has(R) <=> Top.run \in R \/ Has(R)'
    BY <2>1, PopInv
  <2>4. EndsStay
    BY <2>1, <2>2, PopInv DEF EndsStay
  <2>5. ActsStay
    BY <2>2, <2>3 DEF ActsStay
  <2>. QED
    BY <2>3, <2>4, <2>5
<1>2. CASE Top.run # <<>>
  <2>1. IsEvent(Head(Top.run)) /\ Head(Top.run) = Top.run[1]
    BY <1>2, RunsAreSequences DEF ListenersReturn
  <2>2. Goes(Tail(Top.run)) /\ Dispatch(Top.run[1], Top.req)
    BY <1>2, <2>1 DEF Continue, Goes
  <2>3. CASE Top.run = Progresses
    <3>1. Goes(<<>>) /\ Dispatch(Fire("progress"), Top.req)
      BY <2>2, <2>3, Tails, Shapes
    <3>2. UNCHANGED <<log, uploadLog>>
      BY <3>1, FireLogs DEF Endings, Failures
    <3>3. <<>> \in Runs /\ <<>> \notin Starts \cup {SetsDone} /\ Progresses \notin Starts
      BY Kinds DEF Runs, Acts
    <3>. QED
      BY <2>3, <3>1, <3>2, <3>3, Kinds, FireOther
  <2>4. ASSUME NEW e \in Failures, Top.run = UploadFails(e)
        PROVE  StackInv' /\ EndsStay /\ ActsStay
    <3>1. Goes(Ends(e)) /\ Dispatch(FireUpload("loadend"), Top.req)
      BY <2>2, <2>4, Tails, Shapes
    <3>2. e \in Outcomes
      BY DEF Outcomes
    <3>3. /\ UploadFails(e) \in LastUploadEnds /\ UploadFails(e) \in FirstEnds
          /\ Ends(e) \in FirstEnds /\ FirstEnds \subseteq Finals /\ Ends(e) \in Runs
      BY <3>2 DEF LastUploadEnds, Finals, FirstEnds, Runs
    <3>4. /\ UploadFails(e) \notin Acts
          /\ Ends(e) \notin Acts \cup UploadFinals \cup {LastEnd}
      BY <3>2, Kinds
    <3>. QED
      BY <2>4, <3>1, <3>3, <3>4, FireUploadEnd
  <2>5. ASSUME NEW k \in Outcomes, Top.run = Ends(k)
        PROVE  StackInv' /\ EndsStay /\ ActsStay
    <3>1. Goes(LastEnd) /\ Dispatch(Fire(k), Top.req)
      BY <2>2, <2>5, Tails, Shapes
    <3>2. Ends(k) \in FirstEnds /\ Ends(k) \notin UploadFinals \cup {SetsDone}
      BY Kinds DEF FirstEnds, Acts
    <3>. QED
      BY <2>5, <3>1, <3>2, FireFirstEnd
  <2>6. CASE Top.run = LastEnd
    <3>1. Goes(<<>>) /\ Dispatch(Fire("loadend"), Top.req)
      BY <2>2, <2>6, Tails, Shapes
    <3>. QED
      BY <2>6, <3>1, FireLastEnd
  <2>7. CASE Top.run = UploadEnds
    <3>1. Goes(LastUploadEnd) /\ Dispatch(FireUpload("load"), Top.req)
      BY <2>2, <2>7, Tails, Shapes
    <3>. QED
      BY <2>7, <3>1, FireUploadLoad
  <2>8. CASE Top.run = LastUploadEnd
    <3>1. Goes(<<>>) /\ Dispatch(FireUpload("loadend"), Top.req)
      BY <2>2, <2>8, Tails, Shapes
    <3>2. <<>> \in Runs /\ FirstEnds \subseteq Finals /\ LastUploadEnd \in LastUploadEnds /\ LastEnd \in Finals
      BY DEF Runs, Finals, LastUploadEnds
    <3>3. /\ <<>> \notin Acts \cup Finals \cup UploadFinals
          /\ LastUploadEnd \notin Acts \cup Finals
      BY Kinds
    <3>. QED
      BY <2>8, <3>1, <3>2, <3>3, FireUploadEnd
  <2>. QED
    BY <1>2, <2>1, <2>3, <2>4, <2>5, <2>6, <2>7, <2>8, AtEvent
<1>. QED
  BY <1>1, <1>2

LEMMA StartUploadFrames ==
    ASSUME StackOK, StackInv, StartUpload
    PROVE  StackInv' /\ EndsStay /\ ActsStay
<1>1. /\ stack # <<>> /\ Top.run # <<>> /\ Head(Top.run)[1] = "startUpload"
      /\ sends' = sends
  BY DEF StartUpload, AtStatement, netVars
<1>2. Top.run = StartsUpload
  BY <1>1, TopFacts, AtAct
<1>3. Continue(<<FireUpload("loadstart")>> \o StartsRequest)
  BY <1>2, Tails DEF StartUpload
<1>4. Dispatch(FireUpload("loadstart"), Top.req) /\ Goes(StartsRequest)
  <2> DEFINE run == <<FireUpload("loadstart")>> \o StartsRequest
  <2>1. run # <<>> /\ Head(run) = FireUpload("loadstart") /\ Tail(run) = StartsRequest
    <3>1. StartsRequest \in Seq(Ops) /\ FireUpload("loadstart") \in Ops
      BY RunsAreSequences, OpsTypes DEF Runs, Acts, Starts, Events
    <3>. QED
      BY <3>1, JoinOne
  <2>. HIDE DEF run
  <2>2. Continue(run)
    BY <1>3 DEF run
  <2>. QED
    BY <1>1, <2>1, <2>2 DEF Continue, Goes
<1>5. UNCHANGED <<log, uploadLog>>
  BY <1>4, FireUploadLogs DEF Endings, Failures
<1>6. {StartsRequest, StartsUpload} \subseteq Starts /\ Starts \subseteq Acts /\ StartsRequest \in Runs
  BY DEF Starts, Acts, Runs
<1>. QED
  BY <1>2, <1>4, <1>5, <1>6, Kinds, FireOther

\* The frame that starts the request, and that of processResponse, end with it.
LEMMA LeaveFrames ==
    ASSUME StackOK, StackInv, stack # <<>>, Continue(<<>>), UNCHANGED sends,
           Top.run \in Starts \cup {ReadsLength}
    PROVE  /\ StackInv' /\ EndsStay
           /\ Has({SetsDone})' <=> Has({SetsDone})
           /\ Has(Acts)' => Has(Acts)
           /\ Has(Acts)
           /\ Top.run \in Starts => ~Has(Starts)'
           /\ Top.run = ReadsLength => (Has(Starts)' <=> Has(Starts))
           /\ Top.req = sends /\ sends \in Requests
<1>1. stack' = Tail(stack) /\ UNCHANGED <<log, uploadLog, sends>>
  BY DEF Continue
<1>2. /\ Top.run \notin Finals \cup UploadFinals /\ Top.run \notin {SetsDone} /\ Top.run \in Acts
      /\ ReadsLength \notin Starts
  BY Kinds DEF Acts
<1>3. StackInv' /\ (\A R : Has(R) <=> Top.run \in R \/ Has(R)')
      /\ (Has(Starts)' => ~(Top.run \in Starts))
  BY <1>1, PopInv
<1>4. EndsStay
  BY <1>1, <1>2, PopInv DEF EndsStay
<1>. QED
  BY <1>2, <1>3, <1>4, TopFacts

LEMMA StartFrames ==
    ASSUME StackOK, StackInv, StartRequest
    PROVE  stack # <<>> /\ Continue(<<>>) /\ Top.run \in Starts /\ sends' = sends
<1>1. /\ stack # <<>> /\ Top.run # <<>> /\ Head(Top.run)[1] \in {"startUpload", "request"}
      /\ Continue(<<>>) /\ sends' = sends
  BY DEF StartRequest, AtStatement
<1>. QED
  BY <1>1, TopFacts, AtAct DEF Starts

LEMMA ReadFrames ==
    ASSUME StackOK, StackInv, ReadLength
    PROVE  stack # <<>> /\ Continue(<<>>) /\ Top.run = ReadsLength /\ sends' = sends
<1>1. /\ stack # <<>> /\ Top.run # <<>> /\ Head(Top.run)[1] = "readLength"
      /\ Continue(Tail(Top.run)) /\ sends' = sends
  BY DEF ReadLength, AtStatement, netVars
<1>2. Top.run = ReadsLength
  BY <1>1, TopFacts, AtAct
<1>. QED
  BY <1>1, <1>2, Tails

LEMMA SetDoneFrames ==
    ASSUME StackOK, StackInv, SetDone
    PROVE  /\ StackInv' /\ EndsStay
           /\ Has(Starts)' <=> Has(Starts)
           /\ Has(Acts)' => Has(Acts)
           /\ Has({SetsDone}) /\ ~Has({SetsDone})'
           /\ Top.req = sends /\ sends \in Requests
<1>1. /\ stack # <<>> /\ Top.run # <<>> /\ Head(Top.run)[1] = "setDone"
      /\ Continue(Tail(Top.run)) /\ sends' = sends
  BY DEF SetDone, AtStatement, netVars
<1>2. Top.run = SetsDone
  BY <1>1, TopFacts, AtAct
<1>3. Goes(Ends("load")) /\ Dispatch(Fire("readystatechange"), Top.req)
  <2>1. /\ Tail(SetsDone) = <<Fire("readystatechange"), Fire("load"), Fire("loadend")>>
    BY DEF SetsDone
  <2> DEFINE run == <<Fire("readystatechange"), Fire("load"), Fire("loadend")>>
  <2>2. run # <<>> /\ Head(run) = Fire("readystatechange") /\ Tail(run) = Ends("load")
    BY DEF Ends
  <2>3. Continue(run)
    BY <1>1, <1>2, <2>1
  <2>. HIDE DEF run
  <2>. QED
    BY <1>1, <2>2, <2>3 DEF Continue, Goes
<1>4. UNCHANGED <<log, uploadLog>>
  BY <1>3, FireLogs DEF Endings, Failures
<1>5. /\ "load" \in Outcomes /\ Ends("load") \in FirstEnds /\ Ends("load") \in Runs
      /\ SetsDone \in FirstEnds /\ SetsDone \in Acts /\ FirstEnds \subseteq Finals
      /\ UploadEnds \in UploadFinals /\ LastUploadEnds \subseteq UploadFinals
      /\ Starts \subseteq Acts
  BY DEF Outcomes, FirstEnds, Runs, Finals, Acts, UploadFinals
<1>6. /\ Ends("load") \notin Acts \cup UploadFinals \cup {LastEnd}
      /\ SetsDone \notin Starts \cup UploadFinals \cup {LastEnd}
  BY <1>5, Kinds
<1>7. Top.req = sends /\ sends \in Requests
  BY <1>1, <1>2, <1>5, TopFacts
<1>8. FrameInv' /\ Once' /\ ~Has({SetsDone})'
  BY <1>2, <1>3, <1>5, <1>6, <1>7, TopInv
<1>9. \A r \in Requests :
        /\ EndLog(r)' /\ (Ended(r)' <=> Ended(r)) /\ (Closes(r)' <=> Closes(r))
        /\ UploadEndLog(r)' /\ (UploadEnded(r)' <=> UploadEnded(r))
  BY <1>2, <1>3, <1>4, <1>5, <1>6, EndStays, UploadStays
<1>10. StackInv'
  BY <1>8, <1>9 DEF StackInv, LogInv
<1>11. EndsStay
  BY <1>9 DEF EndsStay
<1>12. Has({SetsDone}) /\ Has(Acts)
  BY <1>1, <1>2, <1>5, TopFacts
<1>13. Has(Starts)' <=> Has(Starts)
  BY <1>2, <1>3, <1>5, <1>6, TopFrames DEF Goes
<1>. QED
  BY <1>7, <1>8, <1>10, <1>11, <1>12, <1>13

LEMMA FailFrames ==
    ASSUME StackOK, StackInv, sends \in Nat, FailTheUpload,
           UploadToReport => ~UploadEnded(sends)
    PROVE  /\ StackInv' /\ ActsStay /\ Has(Acts)
           /\ sends \in Requests /\ Ended(sends)
           /\ \A r \in Requests :
                /\ Ended(r)' <=> Ended(r)
                /\ Closes(r)' <=> Closes(r)
                /\ UploadEnded(r)' => UploadEnded(r) \/ r = sends
<1>1. /\ stack # <<>> /\ Top.run # <<>> /\ Head(Top.run)[1] = "failUpload"
      /\ sends' = sends
  BY DEF FailTheUpload, AtStatement, netVars
<1>2. PICK e \in Failures : Top.run = Fails(e) /\ Head(Top.run)[2] = e
  BY <1>1, TopFacts, AtAct
<1>3. e \in Outcomes /\ e \in Endings /\ "loadend" \in Endings
  BY DEF Outcomes, Endings
<1>4. /\ Fails(e) \in FirstEnds /\ Fails(e) \in Acts /\ UploadFails(e) \in FirstEnds
      /\ UploadFails(e) \in LastUploadEnds /\ UploadFails(e) \in Runs
      /\ FirstEnds \subseteq Finals /\ Starts \subseteq Acts /\ SetsDone \in Acts
      /\ UploadEnds \in UploadFinals /\ LastUploadEnds \subseteq UploadFinals
  BY DEF FirstEnds, Acts, LastUploadEnds, Runs, Finals, UploadFinals
<1>5. /\ Fails(e) \notin Starts \cup UploadFinals \cup {SetsDone, LastEnd}
      /\ UploadFails(e) \notin Acts \cup {UploadEnds, LastEnd}
  BY Kinds
<1>6. Top.req = sends /\ sends \in Requests /\ Has(Acts)
  BY <1>1, <1>2, <1>4, TopFacts
<1>7. Ended(sends)
  BY <1>1, <1>2, <1>4, <1>6, TopHas DEF Ended
<1>8. Tail(Top.run) = <<Fire(e), Fire("loadend")>>
  BY <1>2, Tails DEF Ends
<1>9. CASE ~UploadToReport
  <2>1. Continue(<<>> \o <<Fire(e), Fire("loadend")>>)
    BY <1>8, <1>9 DEF FailTheUpload
  <2>2. <<>> \o <<Fire(e), Fire("loadend")>> = Ends(e)
    BY DEF Ends
  <2>3. Goes(LastEnd) /\ Dispatch(Fire(e), Top.req)
    <3>1. Ends(e) # <<>> /\ Head(Ends(e)) = Fire(e) /\ Tail(Ends(e)) = LastEnd
      BY DEF Ends, LastEnd
    <3>2. Continue(Ends(e))
      BY <2>1, <2>2
    <3>. QED
      BY <1>1, <3>1, <3>2 DEF Continue, Goes
  <2>4. StackInv' /\ EndsStay /\ ActsStay
    BY <1>2, <1>3, <1>4, <1>5, <2>3, FireFirstEnd
  <2>. QED
    BY <1>6, <1>7, <2>4 DEF EndsStay
<1>10. CASE UploadToReport
  <2> DEFINE run == <<FireUpload(e), FireUpload("loadend"), Fire(e), Fire("loadend")>>
  <2>1. /\ FireUpload(e) \in Ops /\ FireUpload("loadend") \in Ops
        /\ Fire(e) \in Ops /\ Fire("loadend") \in Ops
    BY <1>3, OpsTypes DEF Events
  <2>2. Continue(run)
    <3>1. Continue(<<FireUpload(e), FireUpload("loadend")>> \o <<Fire(e), Fire("loadend")>>)
      BY <1>2, <1>8, <1>10 DEF FailTheUpload
    <3>. QED
      BY <2>1, <3>1, JoinTwo
  <2>3. run # <<>> /\ Head(run) = FireUpload(e) /\ Tail(run) = UploadFails(e)
    BY DEF UploadFails
  <2>. HIDE DEF run
  <2>4. Goes(UploadFails(e)) /\ Dispatch(FireUpload(e), Top.req)
    BY <1>1, <2>2, <2>3 DEF Continue, Goes
  <2>5. ~HasFor(sends, UploadFinals)
    BY <1>10 DEF UploadEnded
  <2>6. Top.req \in Nat /\ Top.req <= sends
    BY <1>1, TopFacts
  <2>7. FrameInv' /\ Once' /\ \A r \in Requests : Top.req = r =>
          \A R \in SUBSET UploadFinals : HasFor(r, R)' => UploadFails(e) \in R
    BY <1>2, <1>4, <1>5, <1>6, <2>4, <2>5, TopInv
  <2>8. ASSUME NEW r \in Requests
        PROVE  EndLog(r)' /\ (Ended(r)' <=> Ended(r)) /\ (Closes(r)' <=> Closes(r))
    <3>1. log'[r] = log[r]
      BY <2>4, FireUploadLogs
    <3>. QED
      BY <1>2, <1>4, <1>5, <2>4, <3>1, EndStays
  <2>9. ASSUME NEW r \in Requests
        PROVE  UploadEndLog(r)' /\ (UploadEnded(r)' => UploadEnded(r) \/ r = sends)
    <3>1. CASE r = sends
      <4>1. uploadLog'[r] = Append(uploadLog[r], e)
        BY <1>3, <1>6, <2>4, <3>1, FireUploadLogs DEF StackOK
      <4>2. ~UploadEnded(r)
        BY <1>10, <3>1
      <4>. QED
        BY <1>3, <1>4, <1>6, <2>4, <2>6, <2>7, <3>1, <4>1, <4>2, UploadAdvances
    <3>2. CASE r # sends
      <4>1. uploadLog'[r] = uploadLog[r]
        BY <1>3, <1>6, <2>4, <3>2, FireUploadLogs DEF StackOK
      <4>. QED
        BY <1>6, <2>4, <3>2, <4>1, UploadStays
    <3>. QED
      BY <3>1, <3>2
  <2>10. StackInv' /\ ActsStay
    BY <1>2, <1>4, <1>5, <2>4, <2>7, <2>8, <2>9, Assemble
  <2>. QED
    BY <1>6, <1>7, <2>8, <2>9, <2>10
<1>. QED
  BY <1>9, <1>10

-----------------------------------------------------------------------------
(* The flags, the coroutines and the frames together. *)

Early(r) == task[r] \in {"connecting", "body", "nobody"}

\* Where the coroutine of the last request is, against the state of the object
\* and against what the methods have yet to do about that request.
TaskInv ==
    /\ \A r \in Requests :
         /\ r > sends => task[r] = "idle"
         /\ Live(r) => r = sends
         /\ task[r] = "connecting" => state = OPENED /\ sendFlag
         /\ task[r] \in {"body", "nobody"} =>
              state \in {HEADERS_RECEIVED, LOADING} /\ sendFlag /\ response = r
         /\ Has(Starts) /\ r = sends => task[r] = "idle"
         /\ Has({SetsDone}) /\ r = sends => task[r] = "over"
    /\ state \in {HEADERS_RECEIVED, LOADING} =>
         sendFlag /\ (Has({SetsDone}) \/ \E r \in Requests : Live(r))
    /\ Has({SetsDone}) => state \in {HEADERS_RECEIVED, LOADING}

\* A synchronous object, whose send() throws, has nothing under way.
SyncInv ==
    /\ Has(Acts) => ~synchronousFlag
    /\ sendFlag /\ ~synchronousFlag => sends \in Requests
    /\ \A r \in Requests :
         /\ InNetwork(r) => ~synchronousFlag
         /\ Live(r) /\ "listener" \notin faults => ~synchronousFlag

\* What ends a request, or its upload, leaves no one who would end it again.
EndInv ==
    \A r \in Requests :
      /\ Ended(r) => ~Early(r)
      /\ Ended(r) /\ r = sends /\ sendFlag => Has({SetsDone}) \/ synchronousFlag
      /\ UploadEnded(r) /\ r = sends => uploadCompleteFlag \/ synchronousFlag
      /\ UploadEnded(r) /\ r \in writing => ~Early(r)
      /\ UploadEnded(r) /\ r = sends /\ Has(Starts) => ~sendFlag

\* A coroutine that is over has had its end reported, or will; one that has
\* failed will have its rejection handled with the flag set.
ReportInv ==
    "listener" \notin faults =>
      \A r \in Requests :
        /\ task[r] \in {"closed", "over"} => Closes(r)
        /\ task[r] = "failed" => sendFlag \/ Closes(r)

Control == TaskInv /\ SyncInv /\ EndInv /\ ReportInv

OneInv == TypeOK /\ SentIsOpen /\ StackInv /\ Control

LEMMA Flags ==
    ASSUME TypeOK
    PROVE  /\ StackOK /\ sends \in 0..MaxSends /\ sends \in Nat /\ MaxSends \in Nat
           /\ task \in [Requests -> Places] /\ Requests \subseteq Nat
           /\ sendFlag \in BOOLEAN /\ synchronousFlag \in BOOLEAN
           /\ uploadCompleteFlag \in BOOLEAN
<1>1. StackOK /\ NetOK /\ StateOK /\ FlagsOK
  BY TypeParts DEF ObjectOK
<1>2. sends \in 0..MaxSends /\ task \in [Requests -> Places]
  BY <1>1 DEF NetOK
<1>3. sendFlag \in BOOLEAN /\ synchronousFlag \in BOOLEAN /\ uploadCompleteFlag \in BOOLEAN
  BY <1>1 DEF StateOK, FlagsOK
<1>4. MaxSends \in Nat /\ Requests \subseteq Nat
  BY BoundsAssumption DEF BoundsAssumption, Requests
<1>. QED
  BY <1>1, <1>2, <1>3, <1>4

\* Nothing that the flags and coroutines are compared with changes.
LEMMA Quiet ==
    ASSUME Control, EndsStay, ActsStay,
           UNCHANGED <<state, sendFlag, response, sends, task, writing, synchronousFlag,
                       uploadCompleteFlag>>,
           faults \subseteq faults'
    PROVE  Control'
<1>1. TaskInv'
  BY DEF Control, TaskInv, ActsStay, Live, InNetwork
<1>2. SyncInv'
  BY DEF Control, SyncInv, ActsStay, Live, InNetwork
<1>3. EndInv'
  BY DEF Control, EndInv, ActsStay, EndsStay, Early
<1>4. ReportInv'
  BY DEF Control, ReportInv, EndsStay
<1>. QED
  BY <1>1, <1>2, <1>3, <1>4 DEF Control

LEMMA StaySame ==
    ASSUME StackInv, Stay, UNCHANGED sends
    PROVE  /\ StackInv' /\ EndsStay /\ ActsStay
           /\ \A R : Has(R)' <=> Has(R)
<1>. stack' = stack /\ log' = log /\ uploadLog' = uploadLog /\ sends' = sends
  BY DEF Stay
<1>1. \A R : Has(R)' <=> Has(R)
  BY DEF Has
<1>2. \A r, R : HasFor(r, R)' <=> HasFor(r, R)
  BY DEF HasFor
<1>3. FrameInv' /\ Once'
  BY DEF StackInv, FrameInv, Once
<1>4. LogInv'
  BY <1>2 DEF StackInv, LogInv, EndLog, UploadEndLog
<1>5. EndsStay
  BY <1>2 DEF EndsStay, Ended, UploadEnded, Closes
<1>. QED
  BY <1>1, <1>3, <1>4, <1>5 DEF StackInv, ActsStay

\* The calls the methods begin with.
Calls(run, r, by) ==
    /\ stack' = <<[run |-> run, req |-> r, by |-> by]>> \o stack
    /\ UNCHANGED <<log, uploadLog>>

LEMMA Pushes ==
    ASSUME NEW r, NEW by
    PROVE  /\ Push(<<Fire("readystatechange")>>, r, by) => Calls(<<>>, r, by)
           /\ Push(<<Fire("loadstart"), Statement("startUpload"), Statement("request")>>, r, by)
                => Calls(StartsUpload, r, by)
           /\ \A e : Push(<<Fire("readystatechange"), FailUpload(e), Fire(e), Fire("loadend")>>,
                          r, by)
                       => Calls(Fails(e), r, by)
           /\ Push(<<FireUpload("progress")>>, r, by) => Calls(<<>>, r, by)
           /\ Push(<<FireUpload("progress"), FireUpload("load"), FireUpload("loadend")>>, r, by)
                => Calls(UploadEnds, r, by)
           /\ Push(<<Fire("readystatechange"), Statement("readLength")>>, r, by)
                => Calls(ReadsLength, r, by)
           /\ Push(<<Fire("readystatechange"), Fire("progress")>>, r, by)
                => Calls(Progresses, r, by)
           /\ Push(<<Fire("progress"), Statement("setDone"), Fire("readystatechange"),
                     Fire("load"), Fire("loadend")>>, r, by)
                => Calls(SetsDone, r, by)
<1>1. \A e : e \notin Endings =>
        /\ Dispatch(Fire(e), r) => UNCHANGED <<log, uploadLog>>
        /\ Dispatch(FireUpload(e), r) => UNCHANGED <<log, uploadLog>>
  BY FireLogs, FireUploadLogs
<1>2. "readystatechange" \notin Endings /\ "loadstart" \notin Endings /\ "progress" \notin Endings
  BY DEF Endings, Failures
<1>4. Push(<<Fire("readystatechange")>>, r, by) => Calls(<<>>, r, by)
  BY <1>1, <1>2 DEF Push, Calls
<1>5. Push(<<Fire("loadstart"), Statement("startUpload"), Statement("request")>>, r, by)
         => Calls(StartsUpload, r, by)
  BY <1>1, <1>2 DEF Push, Calls, StartsUpload
<1>6. \A e : Push(<<Fire("readystatechange"), FailUpload(e), Fire(e), Fire("loadend")>>, r, by)
               => Calls(Fails(e), r, by)
  BY <1>1, <1>2 DEF Push, Calls, Fails
<1>7. Push(<<FireUpload("progress")>>, r, by) => Calls(<<>>, r, by)
  BY <1>1, <1>2 DEF Push, Calls
<1>8. Push(<<FireUpload("progress"), FireUpload("load"), FireUpload("loadend")>>, r, by)
        => Calls(UploadEnds, r, by)
  BY <1>1, <1>2 DEF Push, Calls, UploadEnds
<1>9. Push(<<Fire("readystatechange"), Statement("readLength")>>, r, by)
        => Calls(ReadsLength, r, by)
  BY <1>1, <1>2 DEF Push, Calls, ReadsLength
<1>10. Push(<<Fire("readystatechange"), Fire("progress")>>, r, by) => Calls(Progresses, r, by)
  BY <1>1, <1>2 DEF Push, Calls, Progresses
<1>11. Push(<<Fire("progress"), Statement("setDone"), Fire("readystatechange"),
              Fire("load"), Fire("loadend")>>, r, by)
         => Calls(SetsDone, r, by)
  BY <1>1, <1>2 DEF Push, Calls, SetsDone
<1>. QED
  BY <1>4, <1>5, <1>6, <1>7, <1>8, <1>9, <1>10, <1>11

\* What ~Busy and ~Outlives say of the frames.
LEMMA ActsAreBusy ==
    ASSUME StackOK, StackInv
    PROVE  /\ Has(Acts) \/ Has(Starts) \/ Has({SetsDone}) => Busy
           /\ Has({SetsDone}) => Outlives
<1>1. \A i \in DOMAIN stack : stack[i].run \in Acts =>
        1 \in DOMAIN stack[i].run /\ ~IsEvent(stack[i].run[1])
  <2> SUFFICES ASSUME NEW run \in Acts
               PROVE  1 \in DOMAIN run /\ ~IsEvent(run[1])
    OBVIOUS
  <2>1. run \in Seq(Ops)
    BY RunsAreSequences DEF Runs
  <2>2. Len(run) >= 1 /\ ~IsEvent(run[1])
    BY Shapes, Ops12 DEF Acts, Starts, IsEvent
  <2>. QED
    BY <2>1, <2>2
<1>2. Has(Acts) => Busy
  BY <1>1 DEF Has, Busy
<1>3. Starts \subseteq Acts /\ SetsDone \in Acts
  BY DEF Acts
<1>4. Has({SetsDone}) => Outlives
  <2>1. SetsDone[1][1] = "setDone" /\ 1 \in DOMAIN SetsDone
    BY Ops12 DEF SetsDone
  <2>. QED
    BY <2>1 DEF Has, Outlives, Pending
<1>. QED
  BY <1>2, <1>3, <1>4 DEF Has

\* A request that has no name yet has no end.
LEMMA NoneYet ==
    ASSUME StackOK, StackInv, sends \in Nat, NEW r \in Requests, r > sends
    PROVE  ~Ended(r) /\ ~UploadEnded(r)
<1>1. log[r] = <<>> /\ uploadLog[r] = <<>>
  BY DEF StackInv, LogInv, EndLog, UploadEndLog
<1>2. \A i \in DOMAIN stack : stack[i].req # r
  <2> SUFFICES ASSUME NEW i \in DOMAIN stack, stack[i].req = r
               PROVE  FALSE
    OBVIOUS
  <2>1. r <= sends
    BY DEF StackInv, FrameInv
  <2>. QED
    BY <2>1, BoundsAssumption DEF Requests, BoundsAssumption
<1>. QED
  BY <1>1, <1>2 DEF Ended, UploadEnded, HasFor

LEMMA QuietCall ==
    ASSUME StackOK, StackInv, sends \in Nat, UNCHANGED sends,
           NEW run \in {<<>>, Progresses}, NEW r \in Nat, r <= sends, NEW by,
           Calls(run, r, by),
           by # "program" => stack = <<>> /\ r \in Requests
    PROVE  StackInv' /\ EndsStay /\ ActsStay
<1>1. run \in Runs /\ run \notin Acts \cup Finals \cup UploadFinals \cup Starts \cup {SetsDone}
  BY Kinds DEF Runs, Acts
<1>2. /\ StackInv'
      /\ \A x \in Requests :
           /\ Ended(x)' <=> Ended(x) \/ (x = r /\ run \in Finals)
           /\ UploadEnded(x)' <=> UploadEnded(x) \/ (x = r /\ run \in UploadFinals)
           /\ Closes(x)' <=> Closes(x) \/ (x = r /\ run \in Finals)
      /\ \A R : Has(R)' <=> run \in R \/ Has(R)
  BY <1>1, PushInv DEF Calls
<1>. QED
  BY <1>1, <1>2 DEF EndsStay, ActsStay

\* A frame with the events of a failure.
LEMMA FailCall ==
    ASSUME StackOK, StackInv, sends \in Nat, UNCHANGED sends,
           NEW e \in Failures, NEW r \in Requests, r = sends, NEW by \in {"program", "catch"},
           Calls(Fails(e), r, by), by # "program" => stack = <<>>,
           ~Ended(r)
    PROVE  /\ StackInv'
           /\ \A x \in Requests : /\ Ended(x)' <=> Ended(x) \/ x = r
                                  /\ Closes(x)' <=> Closes(x) \/ x = r
                                  /\ UploadEnded(x)' <=> UploadEnded(x)
           /\ Has(Starts)' <=> Has(Starts)
           /\ Has({SetsDone})' <=> Has({SetsDone})
<1>1. Fails(e) \in Acts /\ Fails(e) \in Finals /\ Fails(e) \in Runs
  BY DEF Acts, Finals, FirstEnds, Runs
<1>2. Fails(e) \notin Starts \cup UploadFinals \cup {SetsDone, LastEnd}
  BY Kinds
<1>3. /\ StackInv'
      /\ \A x \in Requests :
           /\ Ended(x)' <=> Ended(x) \/ (x = r /\ Fails(e) \in Finals)
           /\ UploadEnded(x)' <=> UploadEnded(x) \/ (x = r /\ Fails(e) \in UploadFinals)
           /\ Closes(x)' <=> Closes(x) \/ (x = r /\ Fails(e) \in Finals)
      /\ \A R : Has(R)' <=> Fails(e) \in R \/ Has(R)
  BY <1>1, <1>2, PushInv DEF Calls
<1>. QED
  BY <1>1, <1>2, <1>3

LEMMA OpenKeeps ==
    ASSUME OneAtATime, OneInv, NEW async \in BOOLEAN, Open(async)
    PROVE  StackInv' /\ Control'
<1>. StackInv /\ Control /\ TypeOK /\ StackOK /\ sends \in Nat
  BY Flags DEF OneInv
<1>1. ~Busy /\ UNCHANGED <<sends, task, writing, uploadCompleteFlag, faults>>
      /\ sendFlag' = FALSE /\ state' = OPENED /\ (synchronousFlag => synchronousFlag')
  BY DEF Open, OpenWith, netVars
<1>2. /\ \A r \in Requests : ~Live(r)
      /\ ~Has(Acts) /\ ~Has(Starts) /\ ~Has({SetsDone})
  BY <1>1, ActsAreBusy DEF Busy
<1>3. StackInv' /\ EndsStay /\ ActsStay
  <2>1. CASE state = OPENED
    BY <1>1, <2>1, StaySame DEF Open, OpenWith
  <2>2. CASE state # OPENED
    <3>1. Calls(<<>>, sends, "program")
      BY <2>2, Pushes DEF Open, OpenWith
    <3>2. sends <= sends
      OBVIOUS
    <3>. QED
      BY <1>1, <3>1, <3>2, QuietCall
  <2>. QED
    BY <2>1, <2>2
<1>4. TaskInv'
  BY <1>1, <1>2, <1>3 DEF Control, TaskInv, ActsStay, Live, InNetwork,
     OPENED, HEADERS_RECEIVED, LOADING
<1>5. SyncInv'
  BY <1>1, <1>2, <1>3 DEF SyncInv, ActsStay, Live, InNetwork
<1>6. EndInv'
  BY <1>1, <1>2, <1>3 DEF Control, EndInv, EndsStay, Early, Live, InNetwork
<1>7. ReportInv'
  BY <1>1, <1>2, <1>3 DEF Control, ReportInv, EndsStay, Live
<1>. QED
  BY <1>3, <1>4, <1>5, <1>6, <1>7 DEF Control

LEMMA SendKeeps ==
    ASSUME OneAtATime, OneInv, NEW body \in Bodies, NEW u \in BOOLEAN, Send(body, u)
    PROVE  StackInv' /\ Control'
<1>. StackInv /\ Control /\ TypeOK /\ StackOK /\ sends \in Nat /\ MaxSends \in Nat
  BY Flags DEF OneInv
<1>1. /\ ~Busy /\ state = OPENED /\ sendFlag' = TRUE
      /\ UNCHANGED <<state, response, synchronousFlag, task, writing, faults>>
  BY DEF Send
<1>2. /\ \A r \in Requests : ~Live(r)
      /\ ~Has(Acts) /\ ~Has(Starts) /\ ~Has({SetsDone})
  BY <1>1, ActsAreBusy DEF Busy
<1>3. CASE synchronousFlag
  <2>1. Stay /\ UNCHANGED sends
    BY <1>3 DEF Send
  <2>2. StackInv' /\ EndsStay /\ ActsStay
    BY <2>1, StaySame
  <2>3. TaskInv'
    BY <1>1, <1>2, <2>1, <2>2 DEF Control, TaskInv, ActsStay, Live, InNetwork,
       OPENED, HEADERS_RECEIVED, LOADING
  <2>4. SyncInv'
    BY <1>1, <1>2, <1>3, <2>1, <2>2 DEF SyncInv, ActsStay, Live, InNetwork
  <2>5. EndInv'
    BY <1>1, <1>2, <1>3, <2>1, <2>2 DEF Control, EndInv, EndsStay, ActsStay, Early
  <2>6. ReportInv'
    BY <1>1, <2>1, <2>2 DEF Control, ReportInv, EndsStay
  <2>. QED
    BY <2>2, <2>3, <2>4, <2>5, <2>6 DEF Control
<1>4. CASE ~synchronousFlag
  <2>1. sends' = sends + 1 /\ sends < MaxSends /\ Calls(StartsUpload, sends + 1, "program")
    BY <1>4, Pushes DEF Send
  <2>2. sends + 1 \in Requests /\ sends + 1 \in Nat
    BY <2>1 DEF Requests
  <2>3. /\ StartsUpload \in Starts /\ StartsUpload \in Acts /\ StartsUpload \in Runs
        /\ StartsUpload \notin Finals \cup UploadFinals \cup {SetsDone}
    BY Kinds DEF Starts, Acts, Runs
  <2>4. /\ StackInv'
        /\ \A x \in Requests :
             /\ Ended(x)' <=> Ended(x) \/ (x = sends + 1 /\ StartsUpload \in Finals)
             /\ UploadEnded(x)' <=> UploadEnded(x) \/ (x = sends + 1 /\ StartsUpload \in UploadFinals)
             /\ Closes(x)' <=> Closes(x) \/ (x = sends + 1 /\ StartsUpload \in Finals)
        /\ \A R : Has(R)' <=> StartsUpload \in R \/ Has(R)
    <3>1. sends' \in Nat /\ sends' >= sends /\ sends + 1 <= sends' /\ sends + 1 = sends'
      BY <2>1
    <3>2. UNCHANGED <<log, uploadLog>>
      BY <2>1 DEF Calls
    <3>3. stack' = <<[run |-> StartsUpload, req |-> sends + 1, by |-> "program"]>> \o stack
      BY <2>1 DEF Calls
    <3> DEFINE r == sends + 1
    <3>. HIDE DEF r
    <3>4. /\ r \in Requests /\ r \in Nat /\ r = sends' /\ r <= sends'
          /\ stack' = <<[run |-> StartsUpload, req |-> r, by |-> "program"]>> \o stack
      BY <2>2, <3>1, <3>3 DEF r
    <3>5. /\ StackInv'
          /\ \A x \in Requests :
               /\ Ended(x)' <=> Ended(x) \/ (x = r /\ StartsUpload \in Finals)
               /\ UploadEnded(x)' <=> UploadEnded(x) \/ (x = r /\ StartsUpload \in UploadFinals)
               /\ Closes(x)' <=> Closes(x) \/ (x = r /\ StartsUpload \in Finals)
          /\ \A R : Has(R)' <=> StartsUpload \in R \/ Has(R)
      BY <1>2, <2>3, <3>1, <3>2, <3>4, PushInv
    <3>. QED
      BY <3>5 DEF r
  <2>5. EndsStay
    BY <2>3, <2>4 DEF EndsStay
  <2>6. Has(Starts)' /\ ~Has({SetsDone})'
    <3>1. StartsUpload \notin {SetsDone}
      BY <2>3
    <3>. QED
      BY <1>2, <2>3, <2>4, <3>1
  <2>7. \A r \in Requests : r > sends => ~Ended(r) /\ ~UploadEnded(r)
    BY NoneYet
  <2>8. \A r \in Requests : (r > sends' => r > sends) /\ (r = sends' => r > sends)
    BY <2>1 DEF Requests
  <2>9. TaskInv'
    BY <1>1, <1>2, <2>6, <2>8 DEF Control, TaskInv, Live, InNetwork,
       OPENED, HEADERS_RECEIVED, LOADING
  <2>10. SyncInv'
    BY <1>1, <1>2, <1>4, <2>1, <2>2 DEF SyncInv, Live, InNetwork
  <2>11. EndInv'
    BY <1>1, <1>2, <2>5, <2>7, <2>8 DEF Control, EndInv, EndsStay, Early
  <2>12. ReportInv'
    BY <1>1, <2>5 DEF Control, ReportInv, EndsStay
  <2>. QED
    BY <2>4, <2>9, <2>10, <2>11, <2>12 DEF Control
<1>. QED
  BY <1>3, <1>4

LEMMA AbortKeeps ==
    ASSUME OneAtATime, OneInv, Abort
    PROVE  StackInv' /\ Control'
<1>. StackInv /\ Control /\ TypeOK /\ StackOK /\ sends \in Nat
  BY Flags DEF OneInv
<1>1. /\ UNCHANGED <<sends, writing, synchronousFlag, uploadCompleteFlag, faults>>
      /\ task' = [r \in Requests |->
                    IF r = response /\ task[r] = "body" THEN "closed" ELSE task[r]]
  BY DEF Abort, AbortWhen, flagVars
<1>2. \A r \in Requests : Live(r)' <=> Live(r)
  BY <1>1 DEF Live, InNetwork
<1>3. CASE ~InFlight
  <2>1. /\ state = DONE /\ state' = UNSENT /\ Stay /\ UNCHANGED sendFlag
    BY <1>3 DEF Abort, AbortWhen
  <2>2. StackInv' /\ EndsStay /\ ActsStay
    BY <1>1, <2>1, StaySame
  <2>3. \A r \in Requests : task[r] \notin {"connecting", "body", "nobody"} /\ task'[r] = task[r]
    BY <1>1, <2>1 DEF Control, TaskInv, OPENED, HEADERS_RECEIVED, LOADING, DONE
  <2>4. TaskInv'
    BY <1>1, <1>2, <2>1, <2>2, <2>3 DEF Control, TaskInv, ActsStay,
       OPENED, HEADERS_RECEIVED, LOADING, DONE, UNSENT
  <2>5. SyncInv'
    BY <1>1, <2>1, <2>2, <2>3 DEF Control, SyncInv, ActsStay, Live, InNetwork
  <2>6. EndInv'
    BY <1>1, <2>1, <2>2, <2>3 DEF Control, EndInv, EndsStay, ActsStay, Early
  <2>7. ReportInv'
    BY <1>1, <2>1, <2>2, <2>3 DEF Control, ReportInv, EndsStay
  <2>. QED
    BY <2>2, <2>4, <2>5, <2>6, <2>7 DEF Control
<1>4. CASE InFlight
  <2>1. ~Outlives /\ Report("abort", sends, "program")
    BY <1>4 DEF Abort, AbortWhen
  <2>2. state' = DONE /\ sendFlag' = FALSE
    BY <2>1 DEF Report
  <2>3. ~Has({SetsDone}) /\ \A r \in Requests : task[r] \notin {"connecting", "nobody"}
    BY <2>1, ActsAreBusy DEF Outlives
  <2>4. \A r \in Requests : ~Early(r)'
    BY <1>1, <2>3 DEF Control, TaskInv, Early
  <2>5. sendFlag
    BY <1>4 DEF InFlight, Control, TaskInv, HEADERS_RECEIVED, LOADING
  <2>6. /\ StackInv'
        /\ \A x \in Requests : /\ Closes(x) => Closes(x)'
                               /\ x = sends /\ ~synchronousFlag => Closes(x)'
                               /\ UploadEnded(x)' <=> UploadEnded(x)
        /\ Has(Starts)' => Has(Starts)
        /\ ~Has({SetsDone})'
        /\ Has(Acts)' => ~synchronousFlag
    <3>1. CASE synchronousFlag
      <4>1. Stay
        BY <2>1, <3>1 DEF Report
      <4>2. StackInv' /\ EndsStay /\ ActsStay
        BY <1>1, <4>1, StaySame
      <4>. QED
        BY <2>3, <3>1, <4>2 DEF EndsStay, ActsStay, Control, SyncInv
    <3>2. CASE ~synchronousFlag
      <4>1. Calls(Fails("abort"), sends, "program")
        BY <2>1, <3>2, Pushes DEF Report
      <4>2. sends \in Requests
        BY <2>5, <3>2 DEF Control, SyncInv
      <4>3. ~Ended(sends)
        BY <2>3, <2>5, <3>2, <4>2 DEF Control, EndInv
      <4>4. "abort" \in Failures
        BY DEF Failures
      <4>. QED
        BY <1>1, <2>3, <3>2, <4>1, <4>2, <4>3, <4>4, FailCall
    <3>. QED
      BY <3>1, <3>2
  <2>7. TaskInv'
    BY <1>1, <1>2, <2>2, <2>4, <2>6 DEF Control, TaskInv, Early,
       OPENED, HEADERS_RECEIVED, LOADING, DONE
  <2>8. SyncInv'
    BY <1>1, <1>2, <2>2, <2>6 DEF Control, SyncInv, Live, InNetwork
  <2>9. EndInv'
    BY <1>1, <2>2, <2>4, <2>6 DEF Control, EndInv
  <2>10. ReportInv'
    <3> SUFFICES ASSUME "listener" \notin faults, NEW r \in Requests
                 PROVE  task'[r] \in {"closed", "over", "failed"} => Closes(r)'
      BY <1>1 DEF ReportInv
    <3>1. CASE Live(r)
      BY <2>6, <3>1 DEF Control, TaskInv, SyncInv
    <3>2. CASE ~Live(r)
      BY <1>1, <2>6, <3>2 DEF Control, ReportInv, Live, InNetwork
    <3>. QED
      BY <3>1, <3>2
  <2>. QED
    BY <2>6, <2>7, <2>8, <2>9, <2>10 DEF Control
<1>. QED
  BY <1>3, <1>4

LEMMA MethodKeeps ==
    ASSUME OneAtATime, OneInv, Method
    PROVE  StackInv' /\ Control'
<1>. StackInv /\ Control /\ TypeOK /\ StackOK /\ sends \in Nat
  BY Flags DEF OneInv
<1>. task \in [Requests -> Places]
  BY Flags
<1>. USE DEF flagVars, netVars
<1>1. CASE ListenersReturn
  <2>1. StackInv' /\ EndsStay /\ ActsStay
    BY <1>1, ReturnFrames
  <2>2. UNCHANGED <<state, sendFlag, response, sends, task, writing, synchronousFlag,
                    uploadCompleteFlag, faults>>
    BY <1>1 DEF ListenersReturn
  <2>. QED
    BY <2>1, <2>2, Quiet
<1>2. CASE StartUpload
  <2>1. StackInv' /\ EndsStay /\ ActsStay
    BY <1>2, StartUploadFrames
  <2>2. UNCHANGED <<state, sendFlag, response, sends, task, writing, synchronousFlag,
                    uploadCompleteFlag, faults>>
    BY <1>2 DEF StartUpload
  <2>. QED
    BY <2>1, <2>2, Quiet
<1>3. CASE StartRequest
  <2>1. stack # <<>> /\ Continue(<<>>) /\ Top.run \in Starts /\ sends' = sends
    BY <1>3, StartFrames
  <2>2. /\ StackInv' /\ EndsStay
        /\ Has({SetsDone})' <=> Has({SetsDone})
        /\ Has(Acts) /\ Has(Starts) /\ ~Has(Starts)'
        /\ Top.req = sends /\ sends \in Requests
    BY <2>1, LeaveFrames, TopFacts
  <2>3. UNCHANGED <<state, sendFlag, response, synchronousFlag, uploadCompleteFlag, faults>>
    BY <1>3 DEF StartRequest
  <2>4. ~synchronousFlag /\ task[sends] = "idle"
    BY <2>2 DEF Control, SyncInv, TaskInv
  <2>5. CASE state = OPENED /\ sendFlag
    <3>1. /\ task' = [task EXCEPT ![sends] = "connecting"]
          /\ writing' \subseteq writing \cup {sends}
      BY <1>3, <2>2, <2>5 DEF StartRequest
    <3>2. ~Has({SetsDone})
      BY <2>5 DEF Control, TaskInv, OPENED, HEADERS_RECEIVED, LOADING
    <3>3. ~Ended(sends) /\ ~UploadEnded(sends)
      BY <2>2, <2>4, <2>5, <3>2 DEF Control, EndInv
    <3>4. TaskInv'
      BY <2>1, <2>2, <2>3, <2>5, <3>1, <3>2 DEF Control, TaskInv, Live, InNetwork,
         OPENED, HEADERS_RECEIVED, LOADING
    <3>5. SyncInv'
      BY <2>1, <2>3, <2>4 DEF Control, SyncInv
    <3>6. EndInv'
      BY <2>1, <2>2, <2>3, <3>1, <3>3 DEF Control, EndInv, EndsStay, Early
    <3>7. ReportInv'
      BY <2>2, <2>3, <3>1 DEF Control, ReportInv, EndsStay
    <3>. QED
      BY <2>2, <3>4, <3>5, <3>6, <3>7 DEF Control
  <2>6. CASE ~(state = OPENED /\ sendFlag)
    <3>1. task' = task /\ writing' = writing
      BY <1>3, <2>6 DEF StartRequest
    <3>2. TaskInv'
      BY <2>1, <2>2, <2>3, <3>1 DEF Control, TaskInv, Live, InNetwork
    <3>3. SyncInv'
      BY <2>1, <2>3, <2>4 DEF Control, SyncInv
    <3>4. EndInv'
      BY <2>1, <2>2, <2>3, <3>1 DEF Control, EndInv, EndsStay, Early
    <3>5. ReportInv'
      BY <2>2, <2>3, <3>1 DEF Control, ReportInv, EndsStay
    <3>. QED
      BY <2>2, <3>2, <3>3, <3>4, <3>5 DEF Control
  <2>. QED
    BY <2>5, <2>6
<1>4. CASE ReadLength
  <2>1. stack # <<>> /\ Continue(<<>>) /\ Top.run = ReadsLength /\ sends' = sends
    BY <1>4, ReadFrames
  <2>2. StackInv' /\ EndsStay /\ ActsStay
    BY <2>1, LeaveFrames DEF ActsStay
  <2>3. UNCHANGED <<state, sendFlag, response, sends, task, writing, synchronousFlag,
                    uploadCompleteFlag>>
    BY <1>4 DEF ReadLength
  <2>4. faults \subseteq faults'
    BY <1>4 DEF ReadLength
  <2>. QED
    BY <2>2, <2>3, <2>4, Quiet
<1>5. CASE SetDone
  <2>1. /\ StackInv' /\ EndsStay
        /\ Has(Starts)' <=> Has(Starts)
        /\ Has(Acts)' => Has(Acts)
        /\ Has({SetsDone}) /\ ~Has({SetsDone})'
        /\ sends \in Requests
    BY <1>5, SetDoneFrames
  <2>2. /\ UNCHANGED <<response, sends, task, writing, synchronousFlag, uploadCompleteFlag, faults>>
        /\ state' = DONE /\ sendFlag' = FALSE
    BY <1>5 DEF SetDone
  <2>3. \A r \in Requests : ~Live(r)
    BY <2>1 DEF Control, TaskInv, Live, InNetwork
  <2>4. TaskInv'
    BY <2>1, <2>2, <2>3 DEF Control, TaskInv, Live, InNetwork,
       HEADERS_RECEIVED, LOADING, DONE
  <2>5. SyncInv'
    BY <2>1, <2>2 DEF Control, SyncInv, Live, InNetwork
  <2>6. EndInv'
    BY <2>1, <2>2 DEF Control, EndInv, EndsStay, Early
  <2>7. ReportInv'
    BY <2>1, <2>2, <2>3 DEF Control, ReportInv, EndsStay, Live
  <2>. QED
    BY <2>1, <2>4, <2>5, <2>6, <2>7 DEF Control
<1>6. CASE FailTheUpload
  <2>1. /\ UNCHANGED <<state, sendFlag, response, sends, task, writing, synchronousFlag, faults>>
        /\ uploadCompleteFlag' = TRUE
    BY <1>6 DEF FailTheUpload
  <2>2. /\ stack # <<>> /\ Top.run # <<>> /\ Head(Top.run)[1] = "failUpload"
    BY <1>6 DEF FailTheUpload, AtStatement
  <2>3. Top.run \in Acts /\ Has(Acts) /\ sends \in Requests
    BY <2>2, TopFacts, AtAct DEF Acts
  <2>4. UploadToReport => ~UploadEnded(sends)
    BY <2>3 DEF UploadToReport, Control, SyncInv, EndInv
  <2>5. /\ StackInv' /\ ActsStay
        /\ Ended(sends)
        /\ \A r \in Requests :
             /\ Ended(r)' <=> Ended(r)
             /\ Closes(r)' <=> Closes(r)
             /\ UploadEnded(r)' => UploadEnded(r) \/ r = sends
    BY <1>6, <2>4, FailFrames
  <2>6. Has(Starts) => ~sendFlag
    BY <2>3, <2>5 DEF Control, TaskInv, SyncInv, EndInv
  <2>7. TaskInv'
    BY <2>1, <2>5 DEF Control, TaskInv, ActsStay, Live, InNetwork
  <2>8. SyncInv'
    BY <2>1, <2>5 DEF Control, SyncInv, ActsStay, Live, InNetwork
  <2>9. EndInv'
    BY <2>1, <2>5, <2>6 DEF Control, EndInv, ActsStay, Early
  <2>10. ReportInv'
    BY <2>1, <2>5 DEF Control, ReportInv
  <2>. QED
    BY <2>5, <2>7, <2>8, <2>9, <2>10 DEF Control
<1>. QED
  BY <1>1, <1>2, <1>3, <1>4, <1>5, <1>6 DEF Method

LEMMA ThrowKeeps ==
    ASSUME OneAtATime, OneInv, ListenerThrows, ~Mixed'
    PROVE  StackInv' /\ Control'
<1>. StackInv /\ Control /\ TypeOK /\ StackOK /\ sends \in Nat
  BY Flags DEF OneInv
<1>. task \in [Requests -> Places]
  BY Flags
<1>1. /\ stack # <<>> /\ stack' = Tail(stack)
      /\ UNCHANGED <<state, sendFlag, response, synchronousFlag, uploadCompleteFlag, sends,
                     log, uploadLog>>
      /\ "listener" \in faults'
  BY DEF ListenerThrows, Thrown, flagVars
<1>2. /\ StackInv'
      /\ \A R : Has(R) <=> Top.run \in R \/ Has(R)'
      /\ \A r \in Requests : Top.req = r /\ Top.run \in Finals => ~HasFor(r, Finals)'
      /\ \A x \in Requests : (Ended(x)' => Ended(x)) /\ (UploadEnded(x)' => UploadEnded(x))
      /\ Top.by # "program" => stack' = <<>>
  BY <1>1, PopInv
<1>3. /\ Top.by \in {"request", "writer"} => Top.req \in Requests
      /\ Top.run \in Acts => Top.req = sends /\ Top.req \in Requests
      /\ Top.run = SetsDone => Top.by = "request"
  BY <1>1, TopFacts
<1>4. ReportInv'
  BY <1>1 DEF ReportInv
<1>5. ASSUME Top.run = SetsDone
      PROVE  Top.req = sends /\ sends \in Requests /\ ~Ended(sends)'
  <2>1. SetsDone \in Acts /\ SetsDone \in FirstEnds /\ FirstEnds \subseteq Finals
    BY DEF Acts, FirstEnds, Finals
  <2>2. Top.req = sends /\ sends \in Requests
    BY <1>3, <1>5, <2>1
  <2>3. log[sends] = <<>>
    <3>1. HasFor(sends, FirstEnds)
      BY <1>1, <1>5, <2>1, <2>2, TopHas
    <3>. QED
      BY <2>2, <3>1 DEF StackInv, LogInv, EndLog
  <2>4. ASSUME NEW r \in Requests, r = sends
        PROVE  ~Ended(r)'
    BY <1>1, <1>2, <1>5, <2>1, <2>2, <2>3, <2>4 DEF Ended
  <2>5. sends' = sends
    BY <1>1
  <2>. QED
    BY <2>2, <2>4, <2>5
<1>6. CASE Top.by \in {"request", "writer"}
  <2>1. /\ task' = [task EXCEPT ![sends] = "failed"] /\ writing' = writing \ {sends}
        /\ sends \in Requests
    BY <1>3, <1>6 DEF ListenerThrows, Over, Callback, Thrown, Mixed
  <2>2. stack' = <<>>
    BY <1>2, <1>6
  <2>3. \A R : ~Has(R)'
    BY <2>2 DEF Has
  <2>4. TaskInv'
    BY <1>1, <1>2, <2>1, <2>3 DEF Control, TaskInv, Live, InNetwork
  <2>5. SyncInv'
    BY <1>1, <2>1, <2>3 DEF Control, SyncInv, Live, InNetwork
  <2>6. EndInv'
    <3> SUFFICES ASSUME NEW r \in Requests
                 PROVE  /\ Ended(r)' => ~Early(r)'
                        /\ Ended(r)' /\ r = sends /\ sendFlag => synchronousFlag
                        /\ UploadEnded(r)' /\ r = sends => uploadCompleteFlag \/ synchronousFlag
                        /\ UploadEnded(r)' /\ r \in writing' => ~Early(r)'
      BY <1>1, <2>3 DEF EndInv
    <3>1. Early(r)' => Early(r)
      BY <2>1 DEF Early
    <3>2. Ended(r)' /\ r = sends /\ sendFlag => synchronousFlag
      <4>1. CASE Has({SetsDone})
        <5>1. Top.run = SetsDone
          BY <1>2, <2>3, <4>1
        <5>2. ~Ended(sends)'
          BY <1>5, <5>1
        <5>. QED
          BY <1>1, <5>2
      <4>2. CASE ~Has({SetsDone})
        BY <1>2, <4>2 DEF Control, EndInv
      <4>. QED
        BY <4>1, <4>2
    <3>. QED
      BY <1>2, <2>1, <3>1, <3>2 DEF Control, EndInv
  <2>. QED
    BY <1>2, <1>4, <2>4, <2>5, <2>6 DEF Control
<1>7. CASE Top.by \notin {"request", "writer"}
  <2>1. task' = task /\ writing' = writing
    BY <1>7 DEF ListenerThrows, Callback
  <2>2. Top.run \notin {SetsDone}
    BY <1>3, <1>7
  <2>3. (Has({SetsDone})' <=> Has({SetsDone})) /\ (Has(Starts)' => Has(Starts))
        /\ (Has(Acts)' => Has(Acts))
    BY <1>2, <2>2
  <2>4. TaskInv'
    BY <1>1, <2>1, <2>3 DEF Control, TaskInv, Live, InNetwork
  <2>5. SyncInv'
    BY <1>1, <2>1, <2>3 DEF Control, SyncInv, Live, InNetwork
  <2>6. EndInv'
    BY <1>1, <1>2, <2>1, <2>3 DEF Control, EndInv, Early
  <2>. QED
    BY <1>2, <1>4, <2>4, <2>5, <2>6 DEF Control
<1>. QED
  BY <1>6, <1>7

LEMMA NetworkKeeps ==
    ASSUME OneAtATime, OneInv, NEW r \in Requests, Coroutine(r)
    PROVE  StackInv' /\ Control'
<1>. StackInv /\ Control /\ TypeOK /\ StackOK /\ sends \in Nat /\ r \in Nat
  BY Flags DEF OneInv
<1>. task \in [Requests -> Places]
  BY Flags
<1>. USE DEF flagVars, netVars
<1>1. /\ stack = <<>> /\ sends' = sends /\ faults' = faults /\ synchronousFlag' = synchronousFlag
  BY DEF Coroutine, Network, WriteChunk, WriteEnd, Response, BodyChunk,
         EndOfBody, NetworkError, Timeout, HandleErrors, LoopRuns
<1>2. \A R : ~Has(R)
  BY <1>1 DEF Has
<1>3. Live(r) /\ r = sends /\ \A x \in Requests : Live(x) => x = r
  <2>1. Live(r)
    BY DEF Coroutine, Network, WriteChunk, WriteEnd, Response, BodyChunk, Writes,
           EndOfBody, NetworkError, Timeout, HandleErrors, InNetwork, Live
  <2>. QED
    BY <2>1 DEF Control, TaskInv
<1>4. r <= sends
  BY <1>3
<1>5. CASE WriteChunk(r)
  <2>1. Calls(<<>>, r, "writer")
    BY <1>5, Pushes DEF WriteChunk
  <2>2. StackInv' /\ EndsStay /\ ActsStay
    BY <1>1, <1>4, <2>1, QuietCall
  <2>3. UNCHANGED <<state, sendFlag, response, sends, task, writing, synchronousFlag,
                    uploadCompleteFlag, faults>>
    BY <1>5 DEF WriteChunk
  <2>. QED
    BY <2>2, <2>3, Quiet
<1>6. CASE WriteEnd(r)
  <2>1. /\ UNCHANGED <<state, sendFlag, response, sends, task, synchronousFlag, faults>>
        /\ uploadCompleteFlag' = TRUE /\ writing' = writing \ {r}
        /\ r \in writing /\ Early(r)
    BY <1>6 DEF WriteEnd, Writes, Early
  <2>2. ~UploadEnded(r)
    BY <2>1 DEF Control, EndInv
  <2>3. /\ StackInv'
        /\ \A x \in Requests : /\ Ended(x)' <=> Ended(x)
                               /\ Closes(x)' <=> Closes(x)
                               /\ UploadEnded(x)' => UploadEnded(x) \/ x = r
        /\ ~Has(Starts)' /\ ~Has({SetsDone})' /\ ~Has(Acts)'
    <3>1. CASE uploadListenerFlag
      <4>1. Calls(UploadEnds, r, "writer")
        BY <1>6, <3>1, Pushes DEF WriteEnd
      <4>2. /\ UploadEnds \in Runs /\ UploadEnds \in UploadFinals
            /\ UploadEnds \notin Acts \cup Finals \cup Starts \cup {SetsDone}
        BY Kinds DEF Runs, UploadFinals, Acts
      <4>3. /\ StackInv'
            /\ \A x \in Requests :
                 /\ Ended(x)' <=> Ended(x) \/ (x = r /\ UploadEnds \in Finals)
                 /\ UploadEnded(x)' <=> UploadEnded(x) \/ (x = r /\ UploadEnds \in UploadFinals)
                 /\ Closes(x)' <=> Closes(x) \/ (x = r /\ UploadEnds \in Finals)
            /\ \A R : Has(R)' <=> UploadEnds \in R \/ Has(R)
        BY <1>1, <1>4, <2>2, <4>1, <4>2, PushInv DEF Calls
      <4>. QED
        BY <1>2, <4>2, <4>3
    <3>2. CASE ~uploadListenerFlag
      <4>1. Stay
        BY <1>6, <3>2 DEF WriteEnd
      <4>. QED
        BY <1>1, <1>2, <4>1, StaySame DEF EndsStay
    <3>. QED
      BY <3>1, <3>2
  <2>4. TaskInv'
    BY <1>2, <2>1, <2>3 DEF Control, TaskInv, Live, InNetwork
  <2>5. SyncInv'
    BY <2>1, <2>3 DEF Control, SyncInv, Live, InNetwork
  <2>6. EndInv'
    BY <1>2, <2>1, <2>3 DEF Control, EndInv, Early
  <2>7. ReportInv'
    BY <2>1, <2>3 DEF Control, ReportInv
  <2>. QED
    BY <2>3, <2>4, <2>5, <2>6, <2>7 DEF Control
<1>7. CASE Response(r)
  <2>1. /\ UNCHANGED <<sendFlag, writing, uploadCompleteFlag>>
        /\ state' = HEADERS_RECEIVED /\ response' = r /\ task[r] = "connecting"
        /\ Calls(ReadsLength, r, "request")
    BY <1>7, Pushes DEF Response
  <2>2. PICK b \in {"body", "nobody"} : task' = [task EXCEPT ![r] = b]
    BY <1>7 DEF Response
  <2>3. /\ ReadsLength \in Runs /\ ReadsLength \in Acts
        /\ ReadsLength \notin Starts \cup Finals \cup UploadFinals \cup {SetsDone}
    BY Kinds DEF Runs, Acts
  <2>4. /\ StackInv'
        /\ \A x \in Requests :
             /\ Ended(x)' <=> Ended(x) \/ (x = r /\ ReadsLength \in Finals)
             /\ UploadEnded(x)' <=> UploadEnded(x) \/ (x = r /\ ReadsLength \in UploadFinals)
             /\ Closes(x)' <=> Closes(x) \/ (x = r /\ ReadsLength \in Finals)
        /\ \A R : Has(R)' <=> ReadsLength \in R \/ Has(R)
    BY <1>1, <1>2, <1>3, <1>4, <2>1, <2>3, PushInv DEF Calls
  <2>5. EndsStay /\ ~Has(Starts)' /\ ~Has({SetsDone})'
    BY <1>2, <2>3, <2>4 DEF EndsStay
  <2>6. sendFlag /\ ~synchronousFlag
    BY <1>3, <2>1 DEF Control, TaskInv, SyncInv, InNetwork
  <2>7. TaskInv'
    BY <1>1, <1>3, <2>1, <2>2, <2>5, <2>6 DEF Control, TaskInv, Live, InNetwork
  <2>8. SyncInv'
    BY <1>1, <1>3, <2>1, <2>2, <2>6 DEF Control, SyncInv, Live, InNetwork
  <2>9. EndInv'
    BY <1>1, <1>2, <2>1, <2>2, <2>5 DEF Control, EndInv, EndsStay, Early
  <2>10. ReportInv'
    BY <1>1, <2>1, <2>2, <2>5 DEF Control, ReportInv, EndsStay
  <2>. QED
    BY <2>4, <2>7, <2>8, <2>9, <2>10 DEF Control
<1>8. CASE BodyChunk(r)
  <2>1. /\ UNCHANGED <<sendFlag, response, task, writing, uploadCompleteFlag>>
        /\ state' = IF state = HEADERS_RECEIVED THEN LOADING ELSE state
        /\ task[r] = "body"
        /\ Calls(Progresses, r, "request")
    BY <1>8, Pushes DEF BodyChunk
  <2>2. StackInv' /\ EndsStay /\ ActsStay
    BY <1>1, <1>4, <2>1, QuietCall
  <2>3. state \in {HEADERS_RECEIVED, LOADING} /\ state' = LOADING
    BY <2>1 DEF Control, TaskInv
  <2>4. \A x \in Requests : task[x] # "connecting"
    BY <1>3, <2>1 DEF Live, InNetwork
  <2>5. TaskInv'
    BY <1>1, <1>2, <2>1, <2>2, <2>3, <2>4 DEF Control, TaskInv, ActsStay, Live, InNetwork
  <2>6. SyncInv'
    BY <1>1, <2>1, <2>2 DEF Control, SyncInv, ActsStay, Live, InNetwork
  <2>7. EndInv'
    BY <1>1, <2>1, <2>2 DEF Control, EndInv, EndsStay, ActsStay, Early
  <2>8. ReportInv'
    BY <1>1, <2>1, <2>2 DEF Control, ReportInv, EndsStay
  <2>. QED
    BY <2>2, <2>5, <2>6, <2>7, <2>8 DEF Control
<1>9. CASE EndOfBody(r)
  <2>1. /\ UNCHANGED <<state, sendFlag, response, uploadCompleteFlag>>
        /\ task' = [task EXCEPT ![r] = "over"] /\ writing' = writing \ {r}
        /\ task[r] \in {"body", "nobody"}
        /\ Calls(SetsDone, r, "request")
    BY <1>9, Pushes DEF EndOfBody, Over
  <2>2. /\ SetsDone \in Runs /\ SetsDone \in Acts /\ SetsDone \in Finals
        /\ SetsDone \notin Starts \cup UploadFinals \cup {LastEnd}
    BY Kinds DEF Runs, Acts, Finals, FirstEnds
  <2>3. ~Ended(r) /\ sendFlag /\ ~synchronousFlag /\ state \in {HEADERS_RECEIVED, LOADING}
    BY <2>1 DEF Control, TaskInv, SyncInv, EndInv, Early, InNetwork
  <2>4. /\ StackInv'
        /\ \A x \in Requests :
             /\ Ended(x)' <=> Ended(x) \/ (x = r /\ SetsDone \in Finals)
             /\ UploadEnded(x)' <=> UploadEnded(x) \/ (x = r /\ SetsDone \in UploadFinals)
             /\ Closes(x)' <=> Closes(x) \/ (x = r /\ SetsDone \in Finals)
        /\ \A R : Has(R)' <=> SetsDone \in R \/ Has(R)
    BY <1>1, <1>2, <1>3, <1>4, <2>1, <2>2, <2>3, PushInv DEF Calls
  <2>5. Has({SetsDone})' /\ ~Has(Starts)'
    <3>1. SetsDone \in {SetsDone}
      OBVIOUS
    <3>. QED
      BY <1>2, <2>2, <2>4, <3>1
  <2>6. TaskInv'
    BY <1>1, <1>3, <2>1, <2>3, <2>5 DEF Control, TaskInv, Live, InNetwork
  <2>7. SyncInv'
    BY <1>1, <1>3, <2>1, <2>3 DEF Control, SyncInv, Live, InNetwork
  <2>8. EndInv'
    BY <1>1, <2>1, <2>2, <2>4, <2>5 DEF Control, EndInv, Early
  <2>9. ReportInv'
    BY <1>1, <2>1, <2>2, <2>4 DEF Control, ReportInv
  <2>. QED
    BY <2>4, <2>6, <2>7, <2>8, <2>9 DEF Control
<1>10. CASE NetworkError(r) \/ Timeout(r)
  <2>1. /\ UNCHANGED <<state, sendFlag, uploadCompleteFlag>>
        /\ task' = [task EXCEPT ![r] = "failed"] /\ writing' = writing \ {r}
        /\ InNetwork(r) /\ Stay
    BY <1>10 DEF NetworkError, Timeout, Over
  <2>2. StackInv' /\ EndsStay /\ ActsStay
    BY <1>1, <2>1, StaySame
  <2>3. TaskInv'
    BY <1>1, <1>2, <1>3, <2>1, <2>2 DEF Control, TaskInv, ActsStay, Live, InNetwork
  <2>4. SyncInv'
    BY <1>1, <2>1, <2>2 DEF Control, SyncInv, ActsStay, Live, InNetwork
  <2>5. EndInv'
    BY <1>1, <2>1, <2>2 DEF Control, EndInv, EndsStay, ActsStay, Early
  <2>6. ReportInv'
    BY <1>1, <2>1, <2>2 DEF Control, ReportInv, TaskInv, EndsStay, InNetwork
  <2>. QED
    BY <2>2, <2>3, <2>4, <2>5, <2>6 DEF Control
<1>11. CASE HandleErrors(r)
  <2>1. /\ task' = [task EXCEPT ![r] = "over"] /\ writing' = writing \ {r}
        /\ uploadCompleteFlag' = uploadCompleteFlag /\ task[r] = "failed"
    BY <1>11 DEF HandleErrors, Over
  <2>2. \A x \in Requests : ~Live(x)'
    BY <1>3, <2>1 DEF Live, InNetwork
  <2>3. ~sendFlag' /\ (~sendFlag => state' = state) /\ (sendFlag => state' = DONE)
    BY <1>11 DEF HandleErrors, Report
  <2>4. /\ StackInv'
        /\ \A x \in Requests : /\ Closes(x) => Closes(x)'
                               /\ UploadEnded(x)' <=> UploadEnded(x)
                               /\ x = r /\ sendFlag /\ ~synchronousFlag => Closes(x)'
        /\ ~Has(Starts)' /\ ~Has({SetsDone})'
        /\ Has(Acts)' => ~synchronousFlag
    <3>1. CASE sendFlag /\ ~synchronousFlag
      <4>1. PICK e \in Failures : Report(e, r, "catch")
        BY <1>11, <3>1 DEF HandleErrors, Failures
      <4>2. Calls(Fails(e), r, "catch")
        BY <3>1, <4>1, Pushes DEF Report
      <4>3. ~Ended(r)
        BY <1>2, <1>3, <3>1 DEF Control, EndInv
      <4>. QED
        BY <1>1, <1>2, <1>3, <3>1, <4>2, <4>3, FailCall
    <3>2. CASE ~(sendFlag /\ ~synchronousFlag)
      <4>1. Stay
        BY <1>11, <3>2 DEF HandleErrors, Report
      <4>. QED
        BY <1>1, <1>2, <3>2, <4>1, StaySame DEF EndsStay, ActsStay
    <3>. QED
      BY <3>1, <3>2
  <2>5. TaskInv'
    BY <1>1, <1>2, <1>3, <2>1, <2>2, <2>3, <2>4 DEF Control, TaskInv, Live, InNetwork,
       HEADERS_RECEIVED, LOADING, DONE
  <2>6. SyncInv'
    BY <1>1, <2>2, <2>3, <2>4 DEF Control, SyncInv, Live
  <2>7. EndInv'
    <3>1. \A x \in Requests : ~Early(x)'
      BY <2>2 DEF Early, Live, InNetwork
    <3>. QED
      BY <1>1, <2>1, <2>3, <2>4, <3>1 DEF Control, EndInv
  <2>8. ReportInv'
    BY <1>1, <1>3, <2>1, <2>2, <2>3, <2>4 DEF Control, ReportInv, SyncInv, Live
  <2>. QED
    BY <2>4, <2>5, <2>6, <2>7, <2>8 DEF Control
<1>. QED
  BY <1>5, <1>6, <1>7, <1>8, <1>9, <1>10, <1>11 DEF Coroutine, Network

LEMMA OneStep ==
    ASSUME OneAtATime, OneInv, [Next]_vars, ~Mixed'
    PROVE  OneInv'
<1>. StackInv /\ Control /\ TypeOK /\ StackOK
  BY Flags DEF OneInv
<1>1. TypeOK'
  BY TypeStep DEF OneInv
<1>2. SentIsOpen'
  BY SentStep DEF OneInv
<1>3. ASSUME Stay, UNCHANGED <<state, sendFlag, response, sends, task, writing, synchronousFlag,
                               uploadCompleteFlag>>,
             faults \subseteq faults'
      PROVE  StackInv' /\ Control'
  <2>1. StackInv' /\ EndsStay /\ ActsStay
    BY <1>3, StaySame
  <2>. QED
    BY <1>3, <2>1, Quiet
<1>4. ASSUME NEW t \in ResponseTypes, SetResponseType(t)
      PROVE  StackInv' /\ Control'
  BY <1>3, <1>4 DEF SetResponseType, Stay, flagVars, netVars
<1>5. ASSUME ReadResponse
      PROVE  StackInv' /\ Control'
  <2>1. faults \subseteq faults'
    BY <1>5 DEF ReadResponse, ReadTextOrBuffer, ReadJson
  <2>. QED
    BY <1>3, <1>5, <2>1 DEF ReadResponse, Stay, flagVars, netVars
<1>6. ASSUME UNCHANGED vars
      PROVE  StackInv' /\ Control'
  BY <1>3, <1>6 DEF vars, Stay, flagVars, netVars
<1>7. StackInv' /\ Control'
  BY <1>4, <1>5, <1>6, OpenKeeps, SendKeeps, AbortKeeps, MethodKeeps, ThrowKeeps, NetworkKeeps
     DEF Next, Program
<1>. QED
  BY <1>1, <1>2, <1>7 DEF OneInv

LEMMA OneInit == Init => OneInv
<1> SUFFICES ASSUME Init
             PROVE  OneInv
  OBVIOUS
<1>1. TypeOK /\ SentIsOpen
  BY TypeInit DEF Init, SentIsOpen
<1>2. /\ stack = <<>> /\ state = UNSENT /\ sendFlag = FALSE /\ writing = {} /\ sends = 0
      /\ \A r \in Requests : task[r] = "idle" /\ log[r] = <<>> /\ uploadLog[r] = <<>>
  BY DEF Init
<1>3. (\A R : ~Has(R)) /\ (\A r, R : ~HasFor(r, R)) /\ FrameInv /\ Once
  BY <1>2 DEF Has, HasFor, FrameInv, Once
<1>4. LogInv
  BY <1>2, <1>3 DEF LogInv, EndLog, UploadEndLog, Histories
<1>5. TaskInv
  BY <1>2, <1>3 DEF TaskInv, Live, InNetwork, UNSENT, HEADERS_RECEIVED, LOADING
<1>6. SyncInv /\ ReportInv
  BY <1>2, <1>3 DEF SyncInv, ReportInv, Live, InNetwork
<1>7. EndInv
  BY <1>2, <1>3 DEF EndInv, Ended, UploadEnded
<1>. QED
  BY <1>1, <1>3, <1>4, <1>5, <1>6, <1>7 DEF OneInv, StackInv, Control

\* No fault is forgotten, and a late throw is one of a listener.
LEMMA FaultsStay ==
    ASSUME TypeOK, [Next]_vars
    PROVE  /\ faults \subseteq faults'
           /\ Mixed' => Mixed \/ "listener" \in faults'
<1>1. \/ faults' = faults \/ faults' = faults \cup Thrown
      \/ faults' \in {faults \cup {x} : x \in {"unsupported responseType", "null response"}}
  <2>1. CASE Method
    BY <2>1 DEF Method, ListenersReturn, StartUpload, StartRequest, ReadLength, SetDone,
                FailTheUpload
  <2>2. CASE Program
    BY <2>2 DEF Program, Open, OpenWith, Send, Abort, AbortWhen, SetResponseType, ReadResponse,
                ReadTextOrBuffer, ReadJson
  <2>3. ASSUME NEW r \in Requests, Coroutine(r)
        PROVE  faults' = faults
    BY <2>3 DEF Coroutine, Network, WriteChunk, WriteEnd, Response, BodyChunk,
                EndOfBody, NetworkError, Timeout, HandleErrors
  <2>4. CASE ListenerThrows
    BY <2>4 DEF ListenerThrows
  <2>5. CASE UNCHANGED vars
    BY <2>5 DEF vars
  <2>. QED
    BY <2>1, <2>2, <2>3, <2>4, <2>5 DEF Next
<1>2. CASE faults' = faults
  BY <1>2 DEF Mixed
<1>3. CASE faults' = faults \cup Thrown
  BY <1>3 DEF Thrown, Mixed
<1>4. ASSUME NEW x \in {"unsupported responseType", "null response"}, faults' = faults \cup {x}
      PROVE  faults \subseteq faults' /\ (Mixed' => Mixed)
  <2>1. x # "late listener"
    OBVIOUS
  <2>. QED
    BY <1>4, <2>1 DEF Mixed
<1>. QED
  BY <1>1, <1>2, <1>3, <1>4

\* The events, the flags and the coroutines of an object that is used for one
\* request at a time fit together, whatever its listeners call or throw, until
\* a throw is late.
LEMMA OneAlways == OneAtATime => (Spec => [](Mixed \/ OneInv))
<1> SUFFICES ASSUME OneAtATime
             PROVE  Spec => [](Mixed \/ OneInv)
  OBVIOUS
<1>1. ASSUME TypeOK, Mixed \/ OneInv, [Next]_vars
      PROVE  (Mixed \/ OneInv)'
  <2>1. Mixed => Mixed'
    BY <1>1, FaultsStay DEF Mixed
  <2>2. OneInv /\ ~Mixed' => OneInv'
    BY <1>1, OneStep
  <2>. QED
    BY <1>1, <2>1, <2>2
<1>. QED
  BY <1>1, OneInit, TypeCorrect, PTL DEF Spec

LEMMA HistoryIsEnd == \A l \in Histories : IsEnd(l)
<1> SUFFICES ASSUME NEW k \in Failures \cup {"load"}
             PROVE  IsEnd(<<>>) /\ IsEnd(<<k>>) /\ IsEnd(<<k, "loadend">>)
  BY DEF Histories, Outcomes
<1> DEFINE S == {k, "loadend"}
           t == <<k, "loadend">>
           u == <<k>>
<1>1. t \in Seq(S) /\ Len(t) = 2 /\ u \in Seq(S) /\ Len(u) = 1
  OBVIOUS
<1>2. SubSeq(<<>>, 1, 0) = <<>> /\ SubSeq(t, 1, 0) = <<>>
  BY SubSeqEmpty
<1>3. SubSeq(t, 1, 1) = u
  <2> DEFINE v == SubSeq(t, 1, 1)
  <2>1. \A i \in 1..1 : t[i] \in S
    OBVIOUS
  <2>2. v \in Seq(S) /\ Len(v) = 1 /\ v[1] = t[1]
    BY <2>1, SubSeqProperties
  <2>. HIDE DEF v
  <2>3. v = u
    BY <2>2
  <2>. QED
    BY <2>3 DEF v
<1>4. SubSeq(t, 1, 2) = t /\ SubSeq(u, 1, 1) = u
  BY <1>1, SubSeqFull
<1>5. IsPrefix(<<>>, t) /\ IsPrefix(u, t) /\ IsPrefix(t, t)
  BY <1>1, <1>2, <1>3, <1>4 DEF IsPrefix
<1>. QED
  BY <1>5 DEF IsEnd

\* A request reports one end, load, error, abort or timeout, and then loadend,
\* and so does its upload: neither a listener that calls abort() in the middle
\* of the events, nor an error that comes after them, nor what a listener throws
\* makes the object report another; unless it throws late, when a callback of
\* the request fails after the program has started the next.
THEOREM EndsOnce == OneAtATime => (Spec => []OneEnding)
<1> SUFFICES ASSUME OneAtATime
             PROVE  Spec => []OneEnding
  OBVIOUS
<1>1. Mixed \/ OneInv => OneEnding
  BY HistoryIsEnd DEF OneInv, StackInv, LogInv, EndLog, UploadEndLog, OneEnding
<1>. QED
  BY <1>1, OneAlways, PTL

\* No end is lost: once the coroutine of a request is over and the methods have
\* returned, the request has reported its loadend, unless a listener threw.
THEOREM EndsAreReported == OneAtATime => (Spec => []EndIsReported)
<1> SUFFICES ASSUME OneAtATime
             PROVE  Spec => []EndIsReported
  OBVIOUS
<1>1. TypeOK /\ (Mixed => "listener" \in faults) /\ (Mixed \/ OneInv) => EndIsReported
  <2> SUFFICES ASSUME Mixed => "listener" \in faults, Mixed \/ OneInv, NEW r \in Requests, stack = <<>>, task[r] = "over",
                      "listener" \notin faults
               PROVE  Contains(log[r], "loadend")
    BY DEF EndIsReported
  <2>1. ~HasFor(r, Finals)
    BY DEF HasFor
  <2>. QED
    BY <2>1 DEF OneInv, Control, ReportInv, Closes
<1>2. Init => ~Mixed
  BY DEF Init, Mixed
<1>3. TypeOK /\ (Mixed => "listener" \in faults) /\ [Next]_vars => (Mixed => "listener" \in faults)'
  BY FaultsStay
<1>. QED
  BY <1>1, <1>2, <1>3, OneAlways, TypeCorrect, PTL DEF Spec

\* readyState goes forward, but for open() and for abort() of a finished request,
\* up to a late throw.
THEOREM StateAdvances == OneAtATime => (Spec => ReadyStateAdvances)
<1> SUFFICES ASSUME OneAtATime
             PROVE  Spec => ReadyStateAdvances
  OBVIOUS
<1>1. ASSUME OneInv, [Next]_vars
      PROVE  (state' < state /\ ~Mixed) => state = DONE /\ state' \in {UNSENT, OPENED}
  <2>. StackInv /\ Control /\ TypeOK /\ StackOK
    BY <1>1, Flags DEF OneInv
  <2>. DEFINE Forward == state' < state => state = DONE /\ state' \in {UNSENT, OPENED}
  <2>1. state \in 0..4 /\ state' \in 0..4
    <3>1. TypeOK'
      BY <1>1, TypeStep DEF OneInv
    <3>. QED
      BY <3>1 DEF TypeOK, UNSENT, DONE
  <2>2. ASSUME state' = state \/ state' > state \/ state' = DONE
        PROVE  Forward
    BY <2>1, <2>2 DEF DONE
  <2>3. ASSUME NEW async \in BOOLEAN, Open(async)
        PROVE  Forward
    <3>1. ~Busy /\ state' = OPENED
      BY <2>3 DEF Open, OpenWith
    <3>2. ~Has({SetsDone}) /\ \A r \in Requests : ~Live(r)
      BY <3>1, ActsAreBusy DEF Busy
    <3>3. state \notin {HEADERS_RECEIVED, LOADING}
      BY <3>2 DEF Control, TaskInv
    <3>. QED
      BY <2>1, <3>1, <3>3 DEF UNSENT, OPENED, HEADERS_RECEIVED, LOADING, DONE
  <2>4. ASSUME Abort
        PROVE  Forward
    <3>1. state' = DONE \/ (state = DONE /\ state' = UNSENT)
      BY <2>4 DEF Abort, AbortWhen, Report
    <3>. QED
      BY <2>2, <3>1
  <2>5. ASSUME \/ \E body \in Bodies, u \in BOOLEAN : Send(body, u)
               \/ \E t \in ResponseTypes : SetResponseType(t)
               \/ ReadResponse \/ Method \/ ListenerThrows
        PROVE  Forward
    <3>1. state' = state \/ state' = DONE
      BY <2>5 DEF Send, SetResponseType, ReadResponse, Method, ListenersReturn, StartUpload,
                  StartRequest, ReadLength, SetDone, FailTheUpload, ListenerThrows
    <3>. QED
      BY <2>2, <3>1
  <2>6. ASSUME NEW r \in Requests, Coroutine(r)
        PROVE  Forward
    <3>1. CASE Response(r)
      BY <2>2, <3>1 DEF Response, Control, TaskInv, OPENED, HEADERS_RECEIVED
    <3>2. CASE BodyChunk(r)
      BY <2>2, <3>2 DEF BodyChunk, HEADERS_RECEIVED, LOADING
    <3>3. CASE HandleErrors(r)
      BY <2>2, <3>3 DEF HandleErrors, Report
    <3>4. CASE WriteChunk(r) \/ WriteEnd(r) \/ EndOfBody(r) \/ NetworkError(r) \/ Timeout(r)
      BY <2>2, <3>4 DEF WriteChunk, WriteEnd, EndOfBody, NetworkError, Timeout
    <3>. QED
      BY <2>6, <3>1, <3>2, <3>3, <3>4 DEF Coroutine, Network
  <2>7. ASSUME UNCHANGED vars
        PROVE  Forward
    BY <2>2, <2>7 DEF vars
  <2>. HIDE DEF Forward
  <2>8. Forward
    BY <1>1, <2>3, <2>4, <2>5, <2>6, <2>7 DEF Next, Program
  <2>. QED
    BY <2>8 DEF Forward
<1>. QED
  <2>1. ASSUME Mixed \/ OneInv, [Next]_vars
        PROVE  (state' < state /\ ~Mixed) => state = DONE /\ state' \in {UNSENT, OPENED}
    BY <1>1, <2>1
  <2>. QED
    BY <2>1, OneAlways, PTL DEF Spec, ReadyStateAdvances

-----------------------------------------------------------------------------
(***************************************************************************)
(* The answer.  An object that is used for one request at a time, and      *)
(* whose listeners do not throw late, shows the bytes of that request, and *)
(* what the response getter has cached is not older than the last of them. *)
(***************************************************************************)

\* The cache is empty until the body is there, but for text, which is decoded
\* again at every read.
CacheInv ==
    /\ state \in {OPENED, HEADERS_RECEIVED} => responseObject = <<>>
    /\ state = LOADING => responseObject = <<>> \/ responseType = "text"
    /\ state = DONE => \/ responseObject = <<>>
                       \/ responseType = "text"
                       \/ responseObject = Converted

AnswerInv ==
    /\ response \in {Null, sends}
    /\ state \in {UNSENT, OPENED} => response = Null
    /\ state = OPENED => receivedBytes = <<>>
    /\ \A i \in DOMAIN receivedBytes : receivedBytes[i] = sends
    /\ CacheInv

\* The steps of the program.
LEMMA AnswerOpen ==
    ASSUME NEW async \in BOOLEAN, Open(async)
    PROVE  AnswerInv'
BY DEF Open, OpenWith, AnswerInv, CacheInv, Null, UNSENT, OPENED, HEADERS_RECEIVED, LOADING, DONE

LEMMA AnswerSend ==
    ASSUME AnswerInv, NEW body \in Bodies, NEW u \in BOOLEAN, Send(body, u)
    PROVE  AnswerInv'
BY DEF Send, AnswerInv, CacheInv, bodyVars, Null, UNSENT, OPENED, HEADERS_RECEIVED, LOADING, DONE

LEMMA AnswerAbort ==
    ASSUME TypeOK, AnswerInv, Abort
    PROVE  AnswerInv'
<1>1. response' = Null /\ UNCHANGED <<sends, bodyVars>> /\ Converted' = Converted
  BY DEF Abort, AbortWhen, Report, bodyVars, Converted
<1>2. \/ state \in {OPENED, HEADERS_RECEIVED, LOADING} /\ state' = DONE
      \/ state = DONE /\ state' = UNSENT
  BY DEF Abort, AbortWhen, Report, InFlight
<1>. QED
  BY <1>1, <1>2 DEF AnswerInv, CacheInv, bodyVars, Null,
                    UNSENT, OPENED, HEADERS_RECEIVED, LOADING, DONE

\* A type can be set only while nothing is shown of an answer.
LEMMA AnswerType ==
    ASSUME AnswerInv, NEW t \in ResponseTypes, SetResponseType(t)
    PROVE  AnswerInv'
BY DEF SetResponseType, AnswerInv, CacheInv, netVars, Null,
       UNSENT, OPENED, HEADERS_RECEIVED, LOADING, DONE

LEMMA AnswerRead ==
    ASSUME AnswerInv, ReadResponse
    PROVE  AnswerInv'
<1>1. UNCHANGED <<state, response, receivedBytes, responseType, sends>> /\ Converted' = Converted
  BY DEF ReadResponse, netVars, Converted
<1>2. \/ responseType = "text" /\ state \in {LOADING, DONE}
      \/ state = DONE /\ responseObject' \in {<<>>, Converted}
  BY DEF ReadResponse, ReadTextOrBuffer, ReadJson
<1>. QED
  BY <1>1, <1>2 DEF AnswerInv, CacheInv, UNSENT, OPENED, HEADERS_RECEIVED, LOADING, DONE

\* The steps of the methods.
LEMMA AnswerMethod ==
    ASSUME OneInv, AnswerInv, Method \/ ListenerThrows \/ UNCHANGED vars
    PROVE  AnswerInv'
<1>1. UNCHANGED <<response, bodyVars, sends>> /\ Converted' = Converted
  BY DEF Method, ListenersReturn, StartUpload, StartRequest, ReadLength, SetDone, FailTheUpload,
         ListenerThrows, vars, netVars, bodyVars, Converted
<1>2. CASE SetDone
  <2>1. Has({SetsDone})
    BY <1>2, SetDoneFrames, Flags DEF OneInv
  <2>2. state \in {HEADERS_RECEIVED, LOADING} /\ state' = DONE
    BY <1>2, <2>1 DEF OneInv, Control, TaskInv, SetDone
  <2>. QED
    BY <1>1, <2>2 DEF AnswerInv, CacheInv, bodyVars,
                      UNSENT, OPENED, HEADERS_RECEIVED, LOADING, DONE
<1>3. CASE UNCHANGED state
  BY <1>1, <1>3 DEF AnswerInv, CacheInv, bodyVars
<1>4. SetDone \/ UNCHANGED state
  BY DEF Method, ListenersReturn, StartUpload, StartRequest, ReadLength, FailTheUpload,
         ListenerThrows, vars
<1>. QED
  BY <1>2, <1>3, <1>4

\* The steps of a coroutine, which is that of the last request.
LEMMA AnswerNetwork ==
    ASSUME OneInv, AnswerInv, NEW r \in Requests, Coroutine(r)
    PROVE  AnswerInv'
<1>. USE DEF netVars, bodyVars, flagVars
<1>1. CASE WriteChunk(r) \/ WriteEnd(r) \/ EndOfBody(r) \/ Timeout(r)
  <2>1. UNCHANGED <<state, response, sends, bodyVars>> /\ Converted' = Converted
    BY <1>1 DEF WriteChunk, WriteEnd, EndOfBody, Timeout, Converted
  <2>. QED
    BY <2>1 DEF AnswerInv, CacheInv
<1>2. CASE Response(r)
  <2>1. /\ UNCHANGED <<sends, bodyVars>> /\ response' = r /\ state' = HEADERS_RECEIVED
        /\ task[r] = "connecting"
    BY <1>2 DEF Response
  <2>2. r = sends /\ state = OPENED
    BY <2>1 DEF OneInv, Control, TaskInv, Live, InNetwork
  <2>. QED
    BY <2>1, <2>2 DEF AnswerInv, CacheInv, UNSENT, OPENED, HEADERS_RECEIVED, LOADING, DONE
<1>3. CASE BodyChunk(r)
  <2>1. /\ UNCHANGED <<sends, response, responseType, responseObject>>
        /\ receivedBytes' = Append(receivedBytes, r)
        /\ state' = IF state = HEADERS_RECEIVED THEN LOADING ELSE state
        /\ task[r] = "body"
    BY <1>3 DEF BodyChunk
  <2>2. r = sends /\ state \in {HEADERS_RECEIVED, LOADING} /\ receivedBytes \in Seq(Requests)
    BY <2>1 DEF OneInv, TypeOK, Control, TaskInv, Live, InNetwork
  <2>3. \A i \in DOMAIN receivedBytes' : receivedBytes'[i] = sends
    BY <2>1, <2>2 DEF AnswerInv
  <2>. QED
    BY <2>1, <2>2, <2>3 DEF AnswerInv, CacheInv, UNSENT, OPENED, HEADERS_RECEIVED, LOADING, DONE
<1>4. CASE NetworkError(r)
  <2>1. UNCHANGED <<state, sends, bodyVars>> /\ Converted' = Converted /\ response' = Null
    BY <1>4 DEF NetworkError, Converted
  <2>. QED
    BY <2>1 DEF AnswerInv, CacheInv, Null
<1>5. CASE HandleErrors(r)
  <2>1. UNCHANGED <<sends, bodyVars>> /\ Converted' = Converted
    BY <1>5 DEF HandleErrors, Converted
  <2>2. \/ UNCHANGED <<state, response>>
        \/ /\ state \in {OPENED, HEADERS_RECEIVED, LOADING}
           /\ state' = DONE /\ response' = Null
    BY <1>5 DEF HandleErrors, Report, OneInv, SentIsOpen
  <2>. QED
    BY <2>1, <2>2 DEF AnswerInv, CacheInv, Null, UNSENT, OPENED, HEADERS_RECEIVED, LOADING, DONE
<1>. QED
  BY <1>1, <1>2, <1>3, <1>4, <1>5 DEF Coroutine, Network

\* What the object shows is the answer to the request it stands for: no late
\* response or chunk of another gets into it, and an ArrayBuffer or an object
\* that the response getter has cached is made of all bytes received, in the
\* type that responseType now says; until a listener throws late.
THEOREM AnswerIsOwn == OneAtATime => (Spec => []OwnAnswer)
<1> SUFFICES ASSUME OneAtATime
             PROVE  Spec => []OwnAnswer
  OBVIOUS
<1>1. Init => AnswerInv
  BY DEF Init, AnswerInv, CacheInv, Null, UNSENT, OPENED, HEADERS_RECEIVED, LOADING, DONE
<1>2. OneInv /\ AnswerInv /\ [Next]_vars => AnswerInv'
  BY AnswerOpen, AnswerSend, AnswerAbort, AnswerType, AnswerRead, AnswerMethod, AnswerNetwork
     DEF OneInv, Next, Program
<1>3. Mixed \/ AnswerInv => OwnAnswer
  BY DEF AnswerInv, CacheInv, OwnAnswer
<1>4. TypeOK /\ Mixed /\ [Next]_vars => Mixed'
  BY FaultsStay DEF Mixed
<1>5. TypeOK /\ (Mixed \/ OneInv) /\ (Mixed \/ AnswerInv) /\ [Next]_vars
        => (Mixed \/ AnswerInv)'
  BY <1>2, <1>4
<1>. QED
  BY <1>1, <1>3, <1>5, OneAlways, TypeCorrect, PTL DEF Spec

================================================================================
