--------------------------- MODULE XMLHttpRequest ---------------------------
(***************************************************************************)
(* One XMLHttpRequest object (builtin_modules/XMLHttpRequest.js), the      *)
(* coroutines request() that it has started (XMLHttpRequest-internal.py)   *)
(* and the program that uses it.                                           *)
(*                                                                         *)
(* dispatchEvent() calls the listeners before it returns, and a listener   *)
(* may call open(), send() and abort() of the same object.  A method that  *)
(* dispatches is therefore a frame on a call stack: `run` is what is left  *)
(* of it, events to fire and statements that read the state again.  Every  *)
(* method begins with an event and the statements between two events run   *)
(* without a pause, so in each state the listeners of an event are running *)
(* for the innermost frame, and may push the frame of another call.  The   *)
(* coroutines and the rejection handler are called by the event loop, on   *)
(* an empty stack.                                                         *)
(***************************************************************************)
EXTENDS Naturals, Sequences, SequencesExt

CONSTANTS
    MaxSends,       \* bound: calls of send() that start a request
    MaxDepth,       \* bound: calls of the program that are in each other
    MaxChunks,      \* bound: chunks of a response
    ResponseTypes,  \* the values the program gives to responseType
    Bodies,         \* the kinds of body it sends
    OneAtATime      \* whether the program uses the object for one request at
                    \* a time, and lets a request be that would outlive abort()

BoundsAssumption ==
    /\ MaxSends \in Nat
    /\ MaxDepth \in Nat
    /\ MaxChunks \in Nat
    /\ ResponseTypes \subseteq {"text", "arraybuffer", "json"}
    /\ Bodies \subseteq {"null", "empty", "bytes"}
    /\ OneAtATime \in BOOLEAN
ASSUME BoundsAssumption

VARIABLES
    state, sendFlag, synchronousFlag, uploadListenerFlag, uploadCompleteFlag,
    timedOutFlag, requestBody, response, receivedBytes,
    responseType, responseObject,
    stack,      \* the frames of the object's methods, innermost first
    sends,      \* the number of requests, which is the name of the last one
    task,       \* where the coroutine of a request is
    writing,    \* the requests whose body is still being written
    log,        \* history: the final events of a request, in order
    uploadLog,  \* history: the final events of its upload
    faults      \* history: exceptions the object or its listeners threw

flagVars == <<synchronousFlag, uploadListenerFlag, uploadCompleteFlag,
              timedOutFlag, requestBody>>
bodyVars == <<receivedBytes, responseType, responseObject>>
netVars  == <<sends, task, writing>>
vars     == <<state, sendFlag, response, stack, flagVars, bodyVars, netVars,
              log, uploadLog, faults>>

UNSENT == 0
OPENED == 1
HEADERS_RECEIVED == 2
LOADING == 3
DONE == 4

Null == 0                       \* no request has this name
Requests == 1..MaxSends
Failures == {"error", "abort", "timeout"}
Endings == Failures \cup {"load", "loadend"}
Events == Endings \cup {"readystatechange", "loadstart", "progress"}

Fire(e) == <<"fire", e>>            \* this.dispatchEvent(e)
FireUpload(e) == <<"fireUpload", e>>  \* this.#uploadObject.dispatchEvent(e)
Statement(s) == <<s, "">>
FailUpload(e) == <<"failUpload", e>>

Ops == {Fire(e) : e \in Events} \cup {FireUpload(e) : e \in Events}
         \cup {FailUpload(e) : e \in Failures}
         \cup {Statement(s) : s \in {"startUpload", "request", "readLength",
                                     "setDone"}}
IsEvent(op) == op[1] \in {"fire", "fireUpload"}

Callers == {"program", "request", "writer", "catch"}
Frames == [run : Seq(Ops), req : 0..MaxSends, by : Callers]

-----------------------------------------------------------------------------
(* The call stack. *)

Top == stack[1]

Log(l, r, op, kind) ==
    IF op[1] # kind \/ op[2] \notin Endings \/ r \notin Requests
    THEN l ELSE [l EXCEPT ![r] = Append(@, op[2])]

\* dispatchEvent(), until the listeners run.
Dispatch(op, r) == /\ log' = Log(log, r, op, "fire")
                   /\ uploadLog' = Log(uploadLog, r, op, "fireUpload")

\* A method begins.
Push(run, r, by) ==
    /\ Dispatch(Head(run), r)
    /\ stack' = <<[run |-> Tail(run), req |-> r, by |-> by]>> \o stack

Stay == UNCHANGED <<stack, log, uploadLog>>

\* The listeners have returned.  The innermost method goes on to the next
\* event of `run`, or returns.
Continue(run) ==
    IF run = <<>>
    THEN stack' = Tail(stack) /\ UNCHANGED <<log, uploadLog>>
    ELSE /\ Dispatch(Head(run), Top.req)
         /\ stack' = <<[Top EXCEPT !.run = Tail(run)]>> \o Tail(stack)

\* A statement of the innermost method comes next.
AtStatement(s) == stack # <<>> /\ Top.run # <<>> /\ Head(Top.run)[1] = s

\* The program runs, its main code or a listener.
ProgramRuns == Len(stack) < MaxDepth

\* The event loop may call a coroutine.
LoopRuns == stack = <<>>

InNetwork(r) == task[r] \in {"connecting", "body", "nobody", "closed"}

Live(r) == InNetwork(r) \/ task[r] = "failed"

Pending(s) == \E i \in DOMAIN stack : \E j \in DOMAIN stack[i].run : stack[i].run[j][1] = s

\* A request is not over, or a method has yet to write to the object.
Busy == \/ \E r \in Requests : Live(r)
        \/ \E i \in DOMAIN stack : \E j \in DOMAIN stack[i].run : ~IsEvent(stack[i].run[j])

-----------------------------------------------------------------------------
Init ==
    /\ state = UNSENT
    /\ sendFlag = FALSE
    /\ synchronousFlag = FALSE
    /\ uploadListenerFlag = FALSE
    /\ uploadCompleteFlag = FALSE
    /\ timedOutFlag = FALSE
    /\ requestBody = "null"
    /\ response = Null
    /\ receivedBytes = <<>>
    /\ responseType = "text"   \* '' means the same
    /\ responseObject = <<>>
    /\ stack = <<>>
    /\ sends = 0
    /\ task = [r \in Requests |-> "idle"]
    /\ writing = {}
    /\ log = [r \in Requests |-> <<>>]
    /\ uploadLog = [r \in Requests |-> <<>>]
    /\ faults = {}

-----------------------------------------------------------------------------
(* The methods the program calls. *)

\* open() with what it leaves of the answer to an earlier request.  Nothing is
\* done about a request that is still in flight.
OpenWith(async, bytes) ==
    /\ ProgramRuns
    /\ OneAtATime => ~Busy
    /\ sendFlag' = FALSE
    /\ uploadListenerFlag' = FALSE
    /\ synchronousFlag' = (synchronousFlag \/ ~async)
    /\ response' = Null
    /\ receivedBytes' = bytes
    /\ responseObject' = <<>>
    /\ state' = OPENED
    /\ IF state # OPENED THEN Push(<<Fire("readystatechange")>>, sends, "program")
       ELSE Stay
    /\ UNCHANGED <<uploadCompleteFlag, timedOutFlag, requestBody, responseType,
                   netVars, faults>>

\* Mutant: the received bytes are kept.
OpenKeepsBytes(async) == OpenWith(async, receivedBytes)

\* open()
Open(async) == OpenWith(async, <<>>)

\* send(): the request gets its name here; #sendAsync() starts it, if at all,
\* after its loadstart events.  GET and HEAD have no body.
Send(body, uploadListeners) ==
    /\ ProgramRuns
    /\ OneAtATime => ~Busy
    /\ state = OPENED
    /\ ~sendFlag
    /\ sendFlag' = TRUE
    /\ requestBody' = body
    /\ uploadListenerFlag' = (uploadListenerFlag \/ uploadListeners)
    /\ uploadCompleteFlag' = (body = "null")
    /\ timedOutFlag' = FALSE
    /\ IF synchronousFlag   \* #sendSync() throws
       THEN UNCHANGED sends /\ Stay
       ELSE /\ sends < MaxSends
            /\ sends' = sends + 1
            /\ Push(<<Fire("loadstart"), Statement("startUpload"),
                      Statement("request")>>, sends + 1, "program")
    /\ UNCHANGED <<state, response, synchronousFlag, bodyVars, task, writing,
                   faults>>

\* #reportRequestError()
Report(e, r, by) ==
    /\ state' = DONE
    /\ sendFlag' = FALSE
    /\ response' = Null
    /\ IF synchronousFlag   \* throw exception
       THEN Stay
       ELSE Push(<<Fire("readystatechange"), FailUpload(e), Fire(e),
                   Fire("loadend")>>, r, by)

InFlight == \/ state = OPENED /\ sendFlag
            \/ state \in {HEADERS_RECEIVED, LOADING}

\* Whether abort() leaves work behind that goes on to report the request.
Outlives == \/ \E r \in Requests : task[r] \in {"connecting", "nobody"}
            \/ Pending("setDone")

\* abort() where `over` is the condition of its last step.  A response is closed
\* if there is one, and the next read of it fails, unless it has no body and is
\* at its end.  Without one, before the headers, the coroutine is not told.
AbortWhen(over) ==
    /\ ProgramRuns
    /\ task' = [r \in Requests |->
                  IF r = response /\ task[r] = "body" THEN "closed" ELSE task[r]]
    /\ \/ /\ InFlight
          /\ OneAtATime => ~Outlives
          /\ Report("abort", sends, "program")
       \/ /\ ~InFlight /\ over
          /\ state' = UNSENT
          /\ response' = Null
          /\ Stay
          /\ UNCHANGED sendFlag
    /\ UNCHANGED <<flagVars, bodyVars, sends, writing, faults>>

\* Mutant: step 3 does not ask for DONE.
AbortAlways == AbortWhen(TRUE)

\* abort()
Abort == AbortWhen(state = DONE)

\* set responseType
SetResponseType(t) ==
    /\ ProgramRuns
    /\ state \notin {LOADING, DONE}
    /\ responseType' = t
    /\ UNCHANGED <<state, sendFlag, response, stack, flagVars, receivedBytes,
                   responseObject, netVars, log, uploadLog, faults>>

\* What the getter puts into its cache, by the type it is made for.
Converted == <<responseType, Len(receivedBytes)>>

\* get response, get responseText: text is decoded again on every read, an
\* ArrayBuffer comes from the cache if one is there.
ReadTextOrBuffer ==
    /\ \/ responseType = "text" /\ state \in {LOADING, DONE}
       \/ responseType = "arraybuffer" /\ state = DONE /\ responseObject = <<>>
    /\ responseObject' = Converted
    /\ UNCHANGED faults

\* With "json" the parsed object is cached and the getter then falls through
\* to its last line.  A falsy value is not found in the cache either.
ReadJson ==
    /\ responseType = "json"
    /\ state = DONE
    /\ responseObject = <<>>
    /\ receivedBytes # <<>>
    /\ \E truthy \in BOOLEAN :
         responseObject' = IF truthy THEN Converted ELSE <<>>
    /\ faults' = faults \cup {"unsupported responseType"}

ReadResponse ==
    /\ ProgramRuns
    /\ ReadTextOrBuffer \/ ReadJson
    /\ UNCHANGED <<state, sendFlag, response, stack, flagVars, receivedBytes,
                   responseType, netVars, log, uploadLog>>

-----------------------------------------------------------------------------
(* What goes on in the methods between two calls of listeners. *)

ListenersReturn ==
    /\ stack # <<>>
    /\ Top.run # <<>> => IsEvent(Head(Top.run))
    /\ Continue(Top.run)
    /\ UNCHANGED <<state, sendFlag, response, flagVars, bodyVars, netVars, faults>>

\* The coroutine is over; so is the task that wrote the body.
Over(r, at) == /\ task' = [task EXCEPT ![r] = at]
               /\ writing' = writing \ {r}

\* The method that a listener throws out of is a callback of a coroutine.
Callback == Top.by \in {"request", "writer"}

\* A listener's throw.  It is a late one if it makes the coroutine of a request
\* fail after the program has used the object for the next request, as it may
\* once the load event has come: #handleErrors will find the send() flag of that
\* request set, and take it for its own.
Thrown == {"listener"} \cup (IF Callback /\ Top.req # sends THEN {"late listener"} ELSE {})

\* dispatchEvent() does not catch: what a listener throws ends the method that
\* fired the event and reaches its caller, which may be another listener.  A
\* callback that throws makes the coroutine fail.
ListenerThrows ==
    /\ stack # <<>>
    /\ stack' = Tail(stack)
    /\ faults' = faults \cup Thrown
    /\ IF Callback THEN Over(Top.req, "failed") ELSE UNCHANGED <<task, writing>>
    /\ UNCHANGED <<state, sendFlag, response, flagVars, bodyVars, sends, log,
                   uploadLog>>

UploadToReport == ~uploadCompleteFlag /\ uploadListenerFlag

\* #sendAsync() step 11.5
StartUpload ==
    /\ AtStatement("startUpload")
    /\ UploadToReport
    /\ Continue(<<FireUpload("loadstart")>> \o Tail(Top.run))
    /\ UNCHANGED <<state, sendFlag, response, flagVars, bodyVars, netVars, faults>>

\* #sendAsync() from step 11.6 on: the coroutine is started unless a listener
\* has changed what the object is about to do.
StartRequest ==
    /\ AtStatement("request") \/ (AtStatement("startUpload") /\ ~UploadToReport)
    /\ Continue(<<>>)
    /\ IF state = OPENED /\ sendFlag
       THEN /\ task' = [task EXCEPT ![Top.req] = "connecting"]
            /\ writing' = IF requestBody = "bytes" THEN writing \cup {Top.req}
                          ELSE writing
       ELSE UNCHANGED <<task, writing>>
    /\ UNCHANGED <<state, sendFlag, response, flagVars, bodyVars, sends, faults>>

\* Mutant: step 11.9.6 is left out.
ReadLengthAlways ==
    /\ AtStatement("readLength")
    /\ Continue(Tail(Top.run))
    /\ faults' = IF response = Null
                 THEN faults \cup {"null response"} ELSE faults
    /\ UNCHANGED <<state, sendFlag, response, flagVars, bodyVars, netVars>>

\* processResponse after its event: response.contentLength is read, unless a
\* listener has changed the state.
ReadLength ==
    /\ AtStatement("readLength")
    /\ Continue(Tail(Top.run))
    /\ faults' = IF state = HEADERS_RECEIVED /\ response = Null
                 THEN faults \cup {"null response"} ELSE faults
    /\ UNCHANGED <<state, sendFlag, response, flagVars, bodyVars, netVars>>

\* Mutant: step 8 is left out.
SetDoneStaysSent ==
    /\ AtStatement("setDone")
    /\ Continue(Tail(Top.run))
    /\ state' = DONE
    /\ sendFlag' = sendFlag
    /\ UNCHANGED <<response, flagVars, bodyVars, netVars, faults>>

\* processEndOfBody after its first event, steps 7 to 9
SetDone ==
    /\ AtStatement("setDone")
    /\ Continue(Tail(Top.run))
    /\ state' = DONE
    /\ sendFlag' = FALSE
    /\ UNCHANGED <<response, flagVars, bodyVars, netVars, faults>>

\* #reportRequestError() step 6
FailTheUpload ==
    /\ AtStatement("failUpload")
    /\ Continue((IF UploadToReport
                 THEN <<FireUpload(Head(Top.run)[2]), FireUpload("loadend")>>
                 ELSE <<>>) \o Tail(Top.run))
    /\ uploadCompleteFlag' = TRUE
    /\ UNCHANGED <<state, sendFlag, response, synchronousFlag, uploadListenerFlag,
                   timedOutFlag, requestBody, bodyVars, netVars, faults>>

-----------------------------------------------------------------------------
(* The coroutine request(), the task of aiohttp that writes the body for it, *)
(* and the handler of its rejection.                                         *)

Writes(r) == r \in writing /\ task[r] \in {"connecting", "body", "nobody"}

\* processRequestBodyChunkLength
WriteChunk(r) ==
    /\ LoopRuns
    /\ Writes(r)
    /\ uploadListenerFlag
    /\ Push(<<FireUpload("progress")>>, r, "writer")
    /\ UNCHANGED <<state, sendFlag, response, flagVars, bodyVars, netVars, faults>>

\* processRequestEndOfBody
WriteEnd(r) ==
    /\ LoopRuns
    /\ Writes(r)
    /\ writing' = writing \ {r}
    /\ uploadCompleteFlag' = TRUE
    /\ IF uploadListenerFlag
       THEN Push(<<FireUpload("progress"), FireUpload("load"),
                   FireUpload("loadend")>>, r, "writer")
       ELSE Stay
    /\ UNCHANGED <<state, sendFlag, response, synchronousFlag, uploadListenerFlag,
                   timedOutFlag, requestBody, bodyVars, sends, task, faults>>

\* processResponse
Response(r) ==
    /\ LoopRuns
    /\ task[r] = "connecting"
    /\ \E body \in {"body", "nobody"} : task' = [task EXCEPT ![r] = body]
    /\ response' = r
    /\ state' = HEADERS_RECEIVED
    /\ Push(<<Fire("readystatechange"), Statement("readLength")>>, r, "request")
    /\ UNCHANGED <<sendFlag, flagVars, bodyVars, sends, writing, faults>>

\* processBodyChunk
BodyChunk(r) ==
    /\ LoopRuns
    /\ task[r] = "body"
    /\ Len(receivedBytes) < MaxChunks
    /\ receivedBytes' = Append(receivedBytes, r)
    /\ state' = IF state = HEADERS_RECEIVED THEN LOADING ELSE state
    /\ Push(<<Fire("readystatechange"), Fire("progress")>>, r, "request")
    /\ UNCHANGED <<sendFlag, response, flagVars, responseType, responseObject,
                   netVars, faults>>

\* processEndOfBody
EndOfBody(r) ==
    /\ LoopRuns
    /\ task[r] \in {"body", "nobody"}
    /\ Over(r, "over")
    /\ Push(<<Fire("progress"), Statement("setDone"), Fire("readystatechange"),
              Fire("load"), Fire("loadend")>>, r, "request")
    /\ UNCHANGED <<state, sendFlag, response, flagVars, bodyVars, sends, faults>>

\* Mutant: onNetworkError already resets the send() flag.
NetworkErrorEnds(r) ==
    /\ LoopRuns
    /\ InNetwork(r)
    /\ Over(r, "failed")
    /\ response' = Null
    /\ sendFlag' = FALSE
    /\ Stay
    /\ UNCHANGED <<state, flagVars, bodyVars, sends, faults>>

\* onNetworkError, then the coroutine raises.
NetworkError(r) ==
    /\ LoopRuns
    /\ InNetwork(r)
    /\ Over(r, "failed")
    /\ response' = Null
    /\ Stay
    /\ UNCHANGED <<state, sendFlag, flagVars, bodyVars, sends, faults>>

\* onTimeoutError, then the coroutine raises.
Timeout(r) ==
    /\ LoopRuns
    /\ InNetwork(r) /\ task[r] # "closed"
    /\ Over(r, "failed")
    /\ timedOutFlag' = TRUE
    /\ Stay
    /\ UNCHANGED <<state, sendFlag, response, synchronousFlag, uploadListenerFlag,
                   uploadCompleteFlag, requestBody, bodyVars, sends, faults>>

\* Mutant: step 1 is left out.
HandleErrorsAlways(r) ==
    /\ LoopRuns
    /\ task[r] = "failed"
    /\ Over(r, "over")
    /\ IF TRUE
       THEN Report(IF timedOutFlag THEN "timeout" ELSE "error", r, "catch")
       ELSE Stay /\ UNCHANGED <<state, sendFlag, response>>
    /\ UNCHANGED <<flagVars, bodyVars, sends, faults>>

\* .catch((e) => this.#handleErrors(e)), a later turn of the loop.
HandleErrors(r) ==
    /\ LoopRuns
    /\ task[r] = "failed"
    /\ Over(r, "over")
    /\ IF sendFlag
       THEN Report(IF timedOutFlag THEN "timeout" ELSE "error", r, "catch")
       ELSE Stay /\ UNCHANGED <<state, sendFlag, response>>
    /\ UNCHANGED <<flagVars, bodyVars, sends, faults>>

-----------------------------------------------------------------------------
Program ==
    \/ \E async \in BOOLEAN : Open(async)
    \/ \E body \in Bodies, u \in BOOLEAN : Send(body, u)
    \/ Abort
    \/ \E t \in ResponseTypes : SetResponseType(t)
    \/ ReadResponse

Method == \/ ListenersReturn \/ StartUpload \/ StartRequest
          \/ ReadLength \/ SetDone \/ FailTheUpload

Network(r) == Response(r) \/ EndOfBody(r) \/ NetworkError(r) \/ Timeout(r)

Coroutine(r) == WriteChunk(r) \/ WriteEnd(r) \/ BodyChunk(r) \/ Network(r) \/ HandleErrors(r)

Next == \/ Program
        \/ Method
        \/ ListenerThrows
        \/ \E r \in Requests : Coroutine(r)

Spec == Init /\ [][Next]_vars

-----------------------------------------------------------------------------
(* Properties *)

TypeOK ==
    /\ state \in UNSENT..DONE
    /\ sendFlag \in BOOLEAN /\ synchronousFlag \in BOOLEAN
    /\ uploadListenerFlag \in BOOLEAN /\ uploadCompleteFlag \in BOOLEAN
    /\ timedOutFlag \in BOOLEAN
    /\ requestBody \in {"null", "empty", "bytes"}
    /\ response \in Requests \cup {Null}
    /\ receivedBytes \in Seq(Requests)
    /\ responseType \in ResponseTypes \cup {"text"}
    /\ responseObject \in {<<>>} \cup ((ResponseTypes \cup {"text"}) \X Nat)
    /\ stack \in Seq(Frames)
    /\ sends \in 0..MaxSends
    /\ task \in [Requests -> {"idle", "connecting", "body", "nobody",
                           "closed", "failed", "over"}]
    /\ writing \subseteq 0..MaxSends
    /\ log \in [Requests -> Seq(Endings)]
    /\ uploadLog \in [Requests -> Seq(Endings)]
    /\ faults \subseteq {"listener", "late listener", "unsupported responseType",
                        "null response"}

\* The send() flag is set only while there is something to wait for, or to
\* abort: whatever listeners, late responses and late errors do, a request
\* that is DONE or UNSENT is not also being sent.
SentIsOpen == sendFlag => state \in {OPENED, HEADERS_RECEIVED, LOADING}

\* processResponse reads this.#response again after the listeners ran, guarded
\* by the state only; no listener can leave that state and a null response.
NoNullResponse == "null response" \notin faults

\* From the first late throw on, #handleErrors may end the wrong request: the one
\* that threw gets a second end, the next one goes on in an object that is DONE.
Mixed == "late listener" \in faults

\* One end per request: load, error, abort or timeout, once, then loadend, once.
IsEnd(l) == \E k \in Failures \cup {"load"} : IsPrefix(l, <<k, "loadend">>)

\* The upload object's end comes from processRequestEndOfBody or, if the request
\* fails first, from #reportRequestError; it is one end too.  What listeners throw
\* does not change that, unless a throw was late.
OneEnding == Mixed \/ \A r \in Requests : IsEnd(log[r]) /\ IsEnd(uploadLog[r])

\* What the object shows is the answer to the request it stands for, and a cached
\* ArrayBuffer or object is one of all bytes received, in the type that
\* responseType now says; unless a throw was late.
OwnAnswer ==
    \/ Mixed
    \/ /\ response \in {Null, sends}
       /\ \A i \in DOMAIN receivedBytes : receivedBytes[i] = sends
       /\ (state = DONE /\ responseType # "text" /\ responseObject # <<>>)
            => responseObject = Converted

\* readyState goes forward, but for abort() of a finished request and open(),
\* which starts over; unless a throw was late.
ReadyStateAdvances ==
    [][(state' < state /\ ~Mixed) =>
         state = DONE /\ state' \in {UNSENT, OPENED}]_vars

\* No end is lost: when the coroutine of a request is over and its rejection
\* handled, the request has reported its end, unless a listener threw.
EndIsReported ==
    \A r \in Requests :
      (stack = <<>> /\ task[r] = "over" /\ "listener" \notin faults)
        => Contains(log[r], "loadend")

=============================================================================
