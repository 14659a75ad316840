---------------------------- MODULE Exceptions_proofs ----------------------------
(***************************************************************************)
(* No exception is lost between the two languages, none is caught by the   *)
(* wrong handler, and none stays pending but those the code leaves so: for *)
(* any number of exceptions and a stack of any depth.                      *)
(***************************************************************************)
EXTENDS Exceptions, TLAPS

\* Frames of the two languages alternate above the main program.
Alternates ==
    /\ stack[1] = Frame("py", "main")
    /\ \A i \in 2..Len(stack) : stack[i].lang # stack[i - 1].lang /\ stack[i].via # "main"
StackInv == stack \in Seq(Frames) /\ Len(stack) > 0 /\ Alternates

TypeInv == TypeOK /\ StackInv

\* What the two indicators hold was raised, and is not the same.
Distinct ==
    /\ pyErr.id <= raised /\ jsExn.id <= raised
    /\ pyErr.id = jsExn.id => pyErr.id = 0
    /\ pyErr.form = "null" => Kind(pyErr) = "null"
NullThrown == \E i \in Throws : kinds[i] = "null"
\* What fails in JavaScript without any exception is a thrown null.
BareFailure == JSFails /\ jsExn = Nothing /\ pyErr = Nothing => NullThrown
LossInv == Distinct /\ BareFailure /\ NothingIsLost

\* Until one is abandoned, a JS exception is only pending while JavaScript fails, and
\* then it is the latest.
Latest ==
    ~abandoned /\ jsExn # Nothing =>
        /\ JSFails /\ pyErr.id <= jsExn.id
        /\ pyErr # Nothing => Kind(pyErr) \in LeftPending
RunsClean ==
    ~abandoned /\ ~failing => jsExn = Nothing /\ (pyErr # Nothing => Kind(pyErr) \in LeftPending)
MainClean == ~abandoned /\ ~failing /\ Len(stack) = 1 => pyErr = Nothing
OverlaidByExit ==
    ~abandoned => \A i \in 1..raised :
                      fate[i] \in {"overlaid", "chained"} => kinds[i] \in LeftPending
StrayInv == Latest /\ RunsClean /\ MainClean /\ OverlaidByExit

\* What an exception is now follows from what it was.
FormInv ==
    /\ Kind(pyErr) = "SystemExit" => pyErr.form = "own"
    /\ Kind(pyErr) = "object" => pyErr.form = "thrown"
    /\ Kind(jsExn) = "object" => jsExn.form = "thrown"
    /\ Kind(jsExn) # "SystemExit"

Inv == TypeInv /\ LossInv /\ StrayInv /\ FormInv

-----------------------------------------------------------------------------
(* The stack. *)

\* What a step may do to it.
Stays == StackInv' /\ Top' = Top /\ Len(stack') = Len(stack)
Pushed(frame) == StackInv' /\ Top' = frame /\ Len(stack') # 1
Popped ==
    /\ StackInv'
    /\ Top.lang = "py" <=> Top'.lang = "js"
    /\ Top.lang = "js" <=> Top'.lang = "py"
    /\ Len(stack') = 1 => Top'.lang = "py"

LEMMA TopIsFrame ==
    ASSUME StackInv
    PROVE  /\ Top \in Frames /\ Len(stack) \in Nat \ {0}
           /\ Top.via = "main" <=> Len(stack) = 1
           /\ Len(stack) = 1 => Top.lang = "py"
  <1>1. Len(stack) \in Nat \ {0} /\ Top \in Frames
    BY DEF StackInv, Top
  <1>2. CASE Len(stack) = 1
    BY <1>1, <1>2 DEF StackInv, Alternates, Top, Frame
  <1>3. CASE Len(stack) # 1
    <2>0. \A n \in Nat : n # 0 /\ n # 1 => n \in 2..n
      OBVIOUS
    <2>1. Len(stack) \in 2..Len(stack)
      BY <1>1, <1>3, <2>0
    <2>2. Top.via # "main"
      BY <2>1 DEF StackInv, Alternates, Top
    <2> QED  BY <1>1, <1>3, <2>2
  <1> QED  BY <1>1, <1>2, <1>3

LEMMA Stay ==
    ASSUME StackInv, UNCHANGED stack
    PROVE  Stays
  BY DEF Stays, StackInv, Alternates, Top

LEMMA Push ==
    ASSUME StackInv, NEW frame \in Frames, Calls(frame),
           frame.via # "main", frame.lang # Top.lang
    PROVE  Pushed(frame)
  <1>1. Len(stack) \in Nat \ {0} /\ stack' = Append(stack, frame) /\ stack \in Seq(Frames)
    BY TopIsFrame DEF Calls, StackInv
  <1>2. /\ stack' \in Seq(Frames) /\ Len(stack') = Len(stack) + 1
        /\ stack'[Len(stack) + 1] = frame
        /\ \A i \in 1..Len(stack) : stack'[i] = stack[i]
    BY <1>1
  <1>3. \A i \in 2..Len(stack') :
            stack'[i].lang # stack'[i - 1].lang /\ stack'[i].via # "main"
    <2> TAKE i \in 2..Len(stack')
    <2>1. CASE i = Len(stack) + 1
      BY <1>1, <1>2, <2>1 DEF Top
    <2>2. CASE i \in 2..Len(stack)
      BY <1>1, <1>2, <2>2 DEF StackInv, Alternates
    <2> QED  BY <1>1, <1>2, <2>1, <2>2
  <1>4. Alternates'
    BY <1>1, <1>2, <1>3 DEF StackInv, Alternates
  <1> QED  BY <1>1, <1>2, <1>4 DEF Pushed, StackInv, Top

LEMMA Pop ==
    ASSUME StackInv, Returns
    PROVE  Popped
  <1>1. /\ Len(stack) \in Nat /\ Len(stack) > 1 /\ stack \in Seq(Frames)
        /\ stack' = SubSeq(stack, 1, Len(stack) - 1)
    BY TopIsFrame DEF Returns, StackInv
  <1>2. /\ stack' \in Seq(Frames) /\ Len(stack') = Len(stack) - 1
        /\ \A i \in 1..(Len(stack) - 1) : stack'[i] = stack[i]
    BY <1>1
  <1>3. Alternates'
    BY <1>1, <1>2 DEF StackInv, Alternates
  <1>4. Top'.lang # Top.lang
    BY <1>1, <1>2 DEF StackInv, Alternates, Top
  <1>5. Len(stack') > 0
    BY <1>1, <1>2
  <1>6. Top' \in Frames
    BY <1>2, <1>5 DEF Top
  <1>7. Len(stack') = 1 => Top'.lang = "py"
    <2>1. stack'[1].lang = "py"
      BY <1>3 DEF Alternates, Frame
    <2> QED  BY <2>1 DEF Top
  <1>8. /\ Top.lang = "py" <=> Top'.lang = "js"
        /\ Top.lang = "js" <=> Top'.lang = "py"
    BY <1>4, <1>6, TopIsFrame DEF Frames, Frame
  <1> QED  BY <1>2, <1>3, <1>5, <1>6, <1>7, <1>8 DEF Popped, StackInv

Fates == {"none", "open", "overlaid", "chained", "caught", "ended"}

\* What New and Became do, entry by entry.
Adds(kind, over, what) ==
    /\ raised' = raised + 1 /\ raised + 1 \in Throws /\ raised' \in 0..MaxRaised
    /\ kinds' \in [Throws -> Kinds \cup {"none"}] /\ kinds'[raised + 1] = kind
    /\ \A i \in Throws : i # raised + 1 => kinds'[i] = kinds[i]
    /\ fate' \in [Throws -> Fates] /\ fate'[raised + 1] = "open"
    /\ \A i \in Throws : i # raised + 1 =>
           fate'[i] = IF i = over.id THEN what ELSE fate[i]
    /\ \A i \in Throws : i > raised' =>
           kinds'[i] = "none" /\ (i # over.id => fate'[i] = "none")
Marks(e, what) ==
    /\ fate' \in [Throws -> Fates]
    /\ \A i \in Throws : fate'[i] = IF i = e.id THEN what ELSE fate[i]
    /\ \A i \in Throws : i > raised => fate'[i] = "none"

LEMMA NewFacts ==
    ASSUME TypeOK, NEW kind \in Kinds, NEW over, NEW what \in Fates, New(kind, over, what)
    PROVE  Adds(kind, over, what)
  BY ExceptionsAssumption DEF Adds, TypeOK, New, Became, Throws, Fates

LEMMA BecameFacts ==
    ASSUME TypeOK, NEW e, NEW what \in Fates, fate' = Became(e, what), e.id <= raised
    PROVE  Marks(e, what)
  BY ExceptionsAssumption DEF Marks, TypeOK, Became, Fates, Throws

LEMMA InitInv == Init => Inv
  <1> SUFFICES ASSUME Init PROVE Inv
    OBVIOUS
  <1>1. StackInv
    BY DEF Init, StackInv, Alternates, Frames
  <1>2. TypeOK
    <2>1. raised \in 0..MaxRaised
      BY ExceptionsAssumption DEF Init
    <2>2. stack \in Seq(Frames) /\ Len(stack) > 0
      BY <1>1 DEF StackInv
    <2> QED  BY <2>1, <2>2 DEF Init, TypeOK, PyFails
  <1>3. LossInv
    BY DEF Init, LossInv, Distinct, BareFailure, NothingIsLost, InFlight, Open,
       BareHeld, Throws, Nothing, Bare, BareError, Exn, JSFails, Kind
  <1>4. StrayInv
    BY ExceptionsAssumption DEF Init, StrayInv, Latest, RunsClean, MainClean,
       OverlaidByExit
  <1>5. FormInv
    BY DEF Init, FormInv, Kind, Nothing, Exn
  <1> QED  BY <1>1, <1>2, <1>3, <1>4, <1>5 DEF Inv, TypeInv

\* The two indicators, by the numbers of what they hold.
LEMMA Holds ==
    ASSUME Inv
    PROVE  /\ TypeOK /\ StackInv /\ Top \in Frames /\ (Len(stack) = 1 => Top.lang = "py")
           /\ failing \in BOOLEAN /\ abandoned \in BOOLEAN /\ raised \in 0..MaxRaised
           /\ MaxRaised \in Nat /\ pyErr.id \in Throws \cup {0} /\ jsExn.id \in Throws \cup {0}
           /\ pyErr.id \in Nat /\ pyErr.id <= raised /\ jsExn.id \in Nat /\ jsExn.id <= raised
           /\ pyErr.id = 0 => pyErr \in {Nothing, Bare, BareError}
           /\ jsExn.id = 0 => jsExn \in {Nothing, BareError}
           /\ Nothing.id = 0 /\ Bare.id = 0 /\ BareError.id = 0
           /\ pyErr = Nothing => pyErr.id = 0
           /\ jsExn = Nothing => jsExn.id = 0
  <1>1. TypeOK /\ StackInv /\ Top \in Frames /\ (Len(stack) = 1 => Top.lang = "py")
    BY TopIsFrame DEF Inv, TypeInv
  <1> QED  BY <1>1, ExceptionsAssumption DEF Inv, LossInv, Distinct, TypeOK, Nothing,
     Bare, BareError, Exn, Throws

-----------------------------------------------------------------------------
(* The steps of a Python frame. *)

LEMMA RaiseKeeps ==
    ASSUME Inv, NEW kind \in PyKinds, Raise(kind)
    PROVE  Inv'
  <1>1. Stays
    BY Holds, Stay DEF Raise
  <1>2. Adds(kind, pyErr, "overlaid")
    BY Holds, NewFacts DEF Raise, PyErr_Set, Kinds, Fates
  <1>3. Kind(pyErr)' = kind /\ Kind(jsExn)' = Kind(jsExn)
    BY Holds, <1>2 DEF Raise, PyErr_Set, Exn, Kind, Adds
  <1>4. TypeOK'
    BY Holds, <1>2 DEF Raise, PyErr_Set, TypeOK, Exn, PyForms, Fates, Adds
  <1>5. Distinct'
    BY Holds, <1>2 DEF Raise, PyErr_Set, Exn, Distinct, Adds
  <1>6. BareFailure'
    BY <1>1 DEF Raise, PyRuns, JSFails, BareFailure, Stays
  <1>7. ({i \in Open : kinds[i] # "null"} \subseteq InFlight)'
    BY Holds, <1>2 DEF Raise, PyErr_Set, Exn, Inv, LossInv, NothingIsLost, InFlight,
       Open, Adds
  <1>8. (InFlight \subseteq Open)'
    BY <1>2 DEF Raise, PyErr_Set, Exn, Inv, LossInv, Distinct, NothingIsLost, InFlight,
       Open, Adds
  <1>9. (BareHeld => NullThrown)'
    BY Holds, <1>2 DEF Raise, PyErr_Set, Exn, Inv, LossInv, NullThrown, BareHeld,
       NothingIsLost, TypeOK, Adds
  <1>10. Latest'
    BY DEF Raise, PyRuns, Inv, StrayInv, Latest, RunsClean
  <1>11. (RunsClean /\ MainClean)'
    BY DEF Raise, RunsClean, MainClean
  <1>12. OverlaidByExit'
    BY Holds, <1>2 DEF Raise, PyRuns, Inv, StrayInv, RunsClean, OverlaidByExit, Kind,
       Throws, Adds
  <1>13. FormInv'
    BY <1>3 DEF Raise, PyErr_Set, PyKinds, Exn, Inv, FormInv
  <1> QED  BY <1>1, <1>4, <1>5, <1>6, <1>7, <1>8, <1>9, <1>10, <1>11, <1>12, <1>13
     DEF Inv, TypeInv, LossInv, StrayInv, NothingIsLost, NullThrown, Stays

LEMMA CheckFunctionResultKeeps ==
    ASSUME Inv, _Py_CheckFunctionResult
    PROVE  Inv'
  <1>1. Stays
    BY Holds, Stay DEF _Py_CheckFunctionResult
  <1>2. Adds("SystemError", pyErr, "chained")
    BY Holds, NewFacts DEF _Py_CheckFunctionResult, Kinds, Fates
  <1>3. Kind(pyErr)' = "SystemError" /\ Kind(jsExn)' = Kind(jsExn)
    BY Holds, <1>2 DEF _Py_CheckFunctionResult, Exn, Kind, Adds
  <1>4. TypeOK'
    BY Holds, <1>2 DEF _Py_CheckFunctionResult, TypeOK, Exn, PyForms, Fates, Adds
  <1>5. Distinct'
    BY Holds, <1>2 DEF _Py_CheckFunctionResult, Exn, Distinct, Adds
  <1>6. BareFailure'
    BY DEF _Py_CheckFunctionResult, Nothing, Exn, BareFailure
  <1>7. ({i \in Open : kinds[i] # "null"} \subseteq InFlight)'
    BY Holds, <1>2 DEF _Py_CheckFunctionResult, Exn, Inv, LossInv, NothingIsLost,
       InFlight, Open, Adds
  <1>8. (InFlight \subseteq Open)'
    BY <1>2 DEF _Py_CheckFunctionResult, Exn, Inv, LossInv, Distinct, NothingIsLost,
       InFlight, Open, Adds
  <1>9. (BareHeld => NullThrown)'
    BY Holds, <1>2 DEF _Py_CheckFunctionResult, Exn, Inv, LossInv, NullThrown, BareHeld,
       NothingIsLost, TypeOK, Adds
  <1>10. Latest'
    BY DEF _Py_CheckFunctionResult, PyRuns, Inv, StrayInv, Latest, RunsClean
  <1>11. (RunsClean /\ MainClean)'
    BY DEF _Py_CheckFunctionResult, RunsClean, MainClean
  <1>12. OverlaidByExit'
    BY Holds, <1>2 DEF _Py_CheckFunctionResult, PyRuns, Inv, StrayInv, RunsClean,
       OverlaidByExit, Kind, Throws, Adds
  <1>13. FormInv'
    BY <1>3 DEF _Py_CheckFunctionResult, Inv, FormInv
  <1> QED  BY <1>1, <1>4, <1>5, <1>6, <1>7, <1>8, <1>9, <1>10, <1>11, <1>12, <1>13
     DEF Inv, TypeInv, LossInv, StrayInv, NothingIsLost, NullThrown, Stays

LEMMA SurfaceKeeps ==
    ASSUME Inv, Surface
    PROVE  Inv'
  <1>1. Stays
    BY Holds, Stay DEF Surface
  <1>2. Kind(pyErr)' = Kind(pyErr) /\ Kind(jsExn)' = Kind(jsExn)
    BY DEF Surface, history, Kind
  <1>3. TypeOK'
    BY Holds DEF Surface, history, TypeOK
  <1>4. Distinct'
    BY <1>2 DEF Surface, history, Inv, LossInv, Distinct
  <1>5. BareFailure'
    BY DEF Surface, BareFailure
  <1>6. ({i \in Open : kinds[i] # "null"} \subseteq InFlight)'
    BY DEF Surface, history, Inv, LossInv, NothingIsLost, InFlight, Open
  <1>7. (InFlight \subseteq Open)'
    BY DEF Surface, history, Inv, LossInv, NothingIsLost, InFlight, Open
  <1>8. (BareHeld => NullThrown)'
    BY DEF Surface, history, Inv, LossInv, NullThrown, BareHeld, NothingIsLost
  <1>9. Latest'
    BY <1>1, <1>2 DEF Surface, JSFails, Inv, StrayInv, Latest, Stays
  <1>10. (RunsClean /\ MainClean)'
    BY DEF Surface, RunsClean, MainClean
  <1>11. OverlaidByExit'
    BY DEF Surface, history, Inv, StrayInv, OverlaidByExit
  <1>12. FormInv'
    BY <1>2 DEF Surface, Inv, FormInv
  <1> QED  BY <1>1, <1>3, <1>4, <1>5, <1>6, <1>7, <1>8, <1>9, <1>10, <1>11, <1>12
     DEF Inv, TypeInv, LossInv, StrayInv, NothingIsLost, NullThrown, Stays

LEMMA ExceptKeeps ==
    ASSUME Inv, Except
    PROVE  Inv'
  <1>1. Stays
    BY Holds, Stay DEF Except
  <1>2. Marks(pyErr, "caught")
    BY Holds, BecameFacts DEF Except, Fates
  <1>3. Kind(pyErr)' = "none" /\ Kind(jsExn)' = Kind(jsExn)
    BY Holds DEF Except, Kind
  <1>4. TypeOK'
    BY Holds, <1>2 DEF Except, TypeOK, PyFails, Marks
  <1>5. Distinct'
    BY Holds DEF Except, Nothing, Exn, Distinct
  <1>6. BareFailure'
    BY DEF Except, JSFails, BareFailure
  <1>7. ({i \in Open : kinds[i] # "null"} \subseteq InFlight)'
    BY <1>2 DEF Except, Inv, LossInv, NothingIsLost, InFlight, Open, Marks
  <1>8. (InFlight \subseteq Open)'
    BY Holds, <1>2 DEF Except, Inv, LossInv, Distinct, NothingIsLost, InFlight, Open,
       Marks
  <1>9. (BareHeld => NullThrown)'
    BY DEF Except, Nothing, Bare, BareError, Exn, Inv, LossInv, NullThrown, BareHeld,
       NothingIsLost
  <1>10. Latest'
    BY DEF Except, PyFails, JSFails, Inv, StrayInv, Latest
  <1>11. (RunsClean /\ MainClean)'
    BY DEF Except, PyFails, JSFails, Inv, StrayInv, Latest, RunsClean, MainClean
  <1>12. OverlaidByExit'
    BY Holds, <1>2 DEF Except, Inv, StrayInv, OverlaidByExit, Throws, Marks
  <1>13. FormInv'
    BY <1>3 DEF Except, Inv, FormInv
  <1> QED  BY <1>1, <1>4, <1>5, <1>6, <1>7, <1>8, <1>9, <1>10, <1>11, <1>12, <1>13
     DEF Inv, TypeInv, LossInv, StrayInv, NothingIsLost, NullThrown, Stays

LEMMA EnterKeeps ==
    ASSUME Inv, NEW via \in {"eval", "call", "getter"}, Enter(via)
    PROVE  Inv'
  <1>1. Pushed(Frame("js", via))
    BY Holds, Push DEF Enter, Frame, PyRuns, Frames
  <1>2. Kind(pyErr)' = Kind(pyErr) /\ Kind(jsExn)' = Kind(jsExn)
    BY DEF Enter, history, Kind
  <1>3. TypeOK'
    BY Holds, <1>1 DEF Enter, history, Frame, TypeOK, PyFails, StackInv, Pushed
  <1>4. Distinct'
    BY <1>2 DEF Enter, history, Inv, LossInv, Distinct
  <1>5. BareFailure'
    BY DEF Enter, PyRuns, JSFails, BareFailure
  <1>6. ({i \in Open : kinds[i] # "null"} \subseteq InFlight)'
    BY DEF Enter, history, Inv, LossInv, NothingIsLost, InFlight, Open
  <1>7. (InFlight \subseteq Open)'
    BY DEF Enter, history, Inv, LossInv, NothingIsLost, InFlight, Open
  <1>8. (BareHeld => NullThrown)'
    BY DEF Enter, history, Inv, LossInv, NullThrown, BareHeld, NothingIsLost
  <1>9. Latest'
    BY <1>1, <1>2 DEF Enter, Frame, JSFails, Inv, StrayInv, Latest, Pushed
  <1>10. (RunsClean /\ MainClean)'
    BY <1>1, <1>2 DEF Enter, Inv, StrayInv, RunsClean, MainClean, Pushed
  <1>11. OverlaidByExit'
    BY DEF Enter, history, Inv, StrayInv, OverlaidByExit
  <1>12. FormInv'
    BY <1>2 DEF Enter, Inv, FormInv
  <1> QED  BY <1>1, <1>3, <1>4, <1>5, <1>6, <1>7, <1>8, <1>9, <1>10, <1>11, <1>12
     DEF Inv, TypeInv, LossInv, StrayInv, NothingIsLost, NullThrown, Pushed

LEMMA PyReturnKeeps ==
    ASSUME Inv, PyReturn, UNCHANGED <<pyErr, history>>
    PROVE  Inv'
  <1>1. Popped
    BY Holds, Pop DEF PyReturn
  <1>2. Kind(pyErr)' = Kind(pyErr) /\ Kind(jsExn)' = Kind(jsExn)
    BY DEF PyReturn, history, Kind
  <1>3. TypeOK'
    BY Holds, <1>1 DEF PyReturn, history, TypeOK, PyRuns, PyFails, StackInv, Popped
  <1>4. Distinct'
    BY <1>2 DEF PyReturn, history, Inv, LossInv, Distinct
  <1>5. BareFailure'
    BY DEF PyReturn, PyRuns, JSFails, BareFailure
  <1>6. ({i \in Open : kinds[i] # "null"} \subseteq InFlight)'
    BY DEF PyReturn, history, Inv, LossInv, NothingIsLost, InFlight, Open
  <1>7. (InFlight \subseteq Open)'
    BY DEF PyReturn, history, Inv, LossInv, NothingIsLost, InFlight, Open
  <1>8. (BareHeld => NullThrown)'
    BY DEF PyReturn, history, Inv, LossInv, NullThrown, BareHeld, NothingIsLost
  <1>9. Latest'
    BY DEF PyReturn, PyRuns, Inv, StrayInv, Latest, RunsClean
  <1>10. (RunsClean /\ MainClean)'
    BY <1>1, <1>2 DEF PyReturn, PyRuns, Inv, StrayInv, RunsClean, MainClean, Popped
  <1>11. OverlaidByExit'
    BY DEF PyReturn, history, Inv, StrayInv, OverlaidByExit
  <1>12. FormInv'
    BY <1>2 DEF PyReturn, Inv, FormInv
  <1> QED  BY <1>1, <1>3, <1>4, <1>5, <1>6, <1>7, <1>8, <1>9, <1>10, <1>11, <1>12
     DEF Inv, TypeInv, LossInv, StrayInv, NothingIsLost, NullThrown, Popped

LEMMA PyReturnUnconvertibleKeeps ==
    ASSUME Inv, PyReturn, PyErr_Set("Unconvertible")
    PROVE  Inv'
  <1>1. Popped
    BY Holds, Pop DEF PyReturn
  <1>2. Adds("Unconvertible", pyErr, "overlaid")
    BY Holds, NewFacts DEF PyErr_Set, Kinds, Fates
  <1>3. Kind(pyErr)' = "Unconvertible" /\ Kind(jsExn)' = Kind(jsExn)
    BY Holds, <1>2 DEF PyReturn, PyErr_Set, Exn, Kind, Adds
  <1>4. TypeOK'
    BY Holds, <1>1, <1>2 DEF PyReturn, PyErr_Set, TypeOK, Exn, PyForms, StackInv, Fates,
       Adds, Popped
  <1>5. Distinct'
    BY Holds, <1>2 DEF PyReturn, PyErr_Set, Exn, Distinct, Adds
  <1>6. BareFailure'
    BY DEF PyReturn, PyRuns, JSFails, BareFailure
  <1>7. ({i \in Open : kinds[i] # "null"} \subseteq InFlight)'
    BY Holds, <1>2 DEF PyReturn, PyErr_Set, Exn, Inv, LossInv, NothingIsLost, InFlight,
       Open, Adds
  <1>8. (InFlight \subseteq Open)'
    BY <1>2 DEF PyReturn, PyErr_Set, Exn, Inv, LossInv, Distinct, NothingIsLost,
       InFlight, Open, Adds
  <1>9. (BareHeld => NullThrown)'
    BY Holds, <1>2 DEF PyReturn, PyErr_Set, Exn, Inv, LossInv, NullThrown, BareHeld,
       NothingIsLost, TypeOK, Adds
  <1>10. Latest'
    BY DEF PyReturn, PyRuns, Inv, StrayInv, Latest, RunsClean
  <1>11. (RunsClean /\ MainClean)'
    BY <1>1, <1>3 DEF PyReturn, PyRuns, Inv, StrayInv, RunsClean, MainClean,
       LeftPending, Popped
  <1>12. OverlaidByExit'
    BY Holds, <1>2 DEF PyReturn, PyRuns, Inv, StrayInv, RunsClean, OverlaidByExit, Kind,
       Throws, Adds
  <1>13. FormInv'
    BY <1>3 DEF PyReturn, Inv, FormInv
  <1> QED  BY <1>1, <1>4, <1>5, <1>6, <1>7, <1>8, <1>9, <1>10, <1>11, <1>12, <1>13
     DEF Inv, TypeInv, LossInv, StrayInv, NothingIsLost, NullThrown, Popped

LEMMA SystemExitKeeps ==
    ASSUME Inv, callPyFuncFails, IsSystemExit(pyErr)
    PROVE  Inv'
  <1>1. Popped
    BY Holds, Pop DEF callPyFuncFails
  <1>2. Kind(pyErr)' = Kind(pyErr) /\ Kind(jsExn)' = Kind(jsExn)
    BY DEF callPyFuncFails, Kind
  <1>3. TypeOK'
    BY Holds, <1>1 DEF callPyFuncFails, TypeOK, StackInv, Popped
  <1>4. Distinct'
    BY DEF callPyFuncFails, IsSystemExit, Inv, LossInv, Distinct
  <1>5. BareFailure'
    BY DEF callPyFuncFails, IsSystemExit, Nothing, Exn, BareFailure
  <1>6. ({i \in Open : kinds[i] # "null"} \subseteq InFlight)'
    BY DEF callPyFuncFails, Inv, LossInv, NothingIsLost, InFlight, Open
  <1>7. (InFlight \subseteq Open)'
    BY DEF callPyFuncFails, Inv, LossInv, NothingIsLost, InFlight, Open
  <1>8. (BareHeld => NullThrown)'
    BY DEF callPyFuncFails, Inv, LossInv, NullThrown, BareHeld, NothingIsLost
  <1>9. Latest'
    BY DEF callPyFuncFails, PyFails, JSFails, Inv, StrayInv, Latest
  <1>10. (RunsClean /\ MainClean)'
    BY <1>1, <1>2 DEF callPyFuncFails, IsSystemExit, PyFails, JSFails, Inv, StrayInv,
       Latest, RunsClean, MainClean, LeftPending, Popped
  <1>11. OverlaidByExit'
    BY DEF callPyFuncFails, Inv, StrayInv, OverlaidByExit
  <1>12. FormInv'
    BY <1>2 DEF callPyFuncFails, Inv, FormInv
  <1> QED  BY <1>1, <1>3, <1>4, <1>5, <1>6, <1>7, <1>8, <1>9, <1>10, <1>11, <1>12
     DEF Inv, TypeInv, LossInv, StrayInv, NothingIsLost, NullThrown, Popped

LEMMA setPyExceptionKeeps ==
    ASSUME Inv, callPyFuncFails, ~IsSystemExit(pyErr), toJsError(pyErr) # Nothing
    PROVE  Inv'
  <1>1. Popped
    BY Holds, Pop DEF callPyFuncFails
  <1>2. Marks(jsExn, "overlaid")
    BY Holds, BecameFacts DEF callPyFuncFails, setPyException, Fates
  <1>3. toJsError(pyErr) \in [id : Throws, form : JSForms] \cup {Nothing, BareError}
    BY Holds DEF TypeOK, toJsError, Bare, BareError, Exn, PyForms, JSForms
  <1>4. Kind(pyErr)' = "none" /\ Kind(jsExn)' = Kind(pyErr)
    BY Holds DEF callPyFuncFails, setPyException, toJsError, Exn, Kind
  <1>5. TypeOK'
    BY Holds, <1>1, <1>2, <1>3 DEF callPyFuncFails, setPyException, TypeOK, PyFails,
       StackInv, Marks, Popped
  <1>6. Distinct'
    BY Holds DEF callPyFuncFails, setPyException, toJsError, Nothing, Exn, Distinct
  <1>7. BareFailure'
    BY DEF callPyFuncFails, setPyException, BareFailure
  <1>8. ({i \in Open : kinds[i] # "null"} \subseteq InFlight)'
    BY <1>2 DEF callPyFuncFails, setPyException, toJsError, Exn, Inv, LossInv,
       NothingIsLost, InFlight, Open, Marks
  <1>9. (InFlight \subseteq Open)'
    BY Holds, <1>2 DEF callPyFuncFails, setPyException, toJsError, Exn, Inv, LossInv,
       Distinct, NothingIsLost, InFlight, Open, Marks
  <1>10. (BareHeld => NullThrown)'
    BY Holds DEF callPyFuncFails, setPyException, toJsError, Nothing, Bare, BareError,
       Exn, Inv, LossInv, NullThrown, BareHeld, NothingIsLost
  <1>11. Latest'
    BY Holds, <1>1 DEF callPyFuncFails, setPyException, toJsError, PyFails, JSFails,
       Exn, Latest, Popped
  <1>12. (RunsClean /\ MainClean)'
    BY DEF callPyFuncFails, RunsClean, MainClean
  <1>13. OverlaidByExit'
    BY Holds, <1>2 DEF callPyFuncFails, PyFails, JSFails, Inv, StrayInv, Latest,
       OverlaidByExit, Throws, Marks
  <1>14. FormInv'
    BY <1>4 DEF callPyFuncFails, setPyException, toJsError, IsSystemExit, Inv, FormInv
  <1> QED  BY <1>1, <1>5, <1>6, <1>7, <1>8, <1>9, <1>10, <1>11, <1>12, <1>13, <1>14
     DEF Inv, TypeInv, LossInv, StrayInv, NothingIsLost, NullThrown, Popped

LEMMA setPyExceptionNullKeeps ==
    ASSUME Inv, callPyFuncFails, ~IsSystemExit(pyErr), toJsError(pyErr) = Nothing
    PROVE  Inv'
  <1>1. Popped
    BY Holds, Pop DEF callPyFuncFails
  <1>2. pyErr.id \in Throws /\ kinds[pyErr.id] = "null" /\ toJsError(pyErr) = Nothing
    BY Holds DEF Inv, LossInv, Distinct, Kind, toJsError, TypeOK, Nothing, Exn,
       callPyFuncFails
  <1>3. Kind(pyErr)' = "none" /\ Kind(jsExn)' = Kind(jsExn)
    BY Holds DEF callPyFuncFails, setPyException, Kind
  <1>4. TypeOK'
    BY Holds, <1>1 DEF callPyFuncFails, setPyException, TypeOK, PyFails, StackInv,
       Popped
  <1>5. Distinct'
    BY Holds DEF callPyFuncFails, setPyException, Nothing, Exn, Distinct
  <1>6. BareFailure'
    BY <1>2 DEF callPyFuncFails, BareFailure, NullThrown
  <1>7. ({i \in Open : kinds[i] # "null"} \subseteq InFlight)'
    BY <1>2 DEF callPyFuncFails, setPyException, Inv, LossInv, NothingIsLost, InFlight,
       Open
  <1>8. (InFlight \subseteq Open)'
    BY Holds DEF callPyFuncFails, setPyException, Inv, LossInv, NothingIsLost, InFlight,
       Open
  <1>9. (BareHeld => NullThrown)'
    BY <1>2 DEF callPyFuncFails, NullThrown
  <1>10. Latest'
    BY DEF callPyFuncFails, setPyException, PyFails, JSFails, Inv, StrayInv, Latest
  <1>11. (RunsClean /\ MainClean)'
    BY DEF callPyFuncFails, RunsClean, MainClean
  <1>12. OverlaidByExit'
    BY DEF callPyFuncFails, setPyException, Inv, StrayInv, OverlaidByExit
  <1>13. FormInv'
    BY <1>3 DEF callPyFuncFails, setPyException, Inv, FormInv
  <1> QED  BY <1>1, <1>4, <1>5, <1>6, <1>7, <1>8, <1>9, <1>10, <1>11, <1>12, <1>13
     DEF Inv, TypeInv, LossInv, StrayInv, NothingIsLost, NullThrown, Popped

LEMMA IteratorEndsKeeps ==
    ASSUME Inv, iter_nextFails, Ends
    PROVE  Inv'
  <1>1. Popped
    BY Holds, Pop DEF iter_nextFails
  <1>2. Marks(pyErr, "ended")
    BY Holds, BecameFacts DEF iter_nextFails, Fates
  <1>3. Kind(pyErr)' = "none" /\ Kind(jsExn)' = Kind(jsExn)
    BY Holds DEF iter_nextFails, Kind
  <1>4. TypeOK'
    BY Holds, <1>1, <1>2 DEF iter_nextFails, TypeOK, PyFails, StackInv, Fates, Marks,
       Popped
  <1>5. Distinct'
    BY Holds DEF iter_nextFails, Nothing, Exn, Distinct
  <1>6. BareFailure'
    BY DEF iter_nextFails, JSFails, BareFailure
  <1>7. ({i \in Open : kinds[i] # "null"} \subseteq InFlight)'
    BY <1>2 DEF iter_nextFails, Inv, LossInv, NothingIsLost, InFlight, Open, Marks
  <1>8. (InFlight \subseteq Open)'
    BY Holds, <1>2 DEF iter_nextFails, Inv, LossInv, Distinct, NothingIsLost, InFlight,
       Open, Marks
  <1>9. (BareHeld => NullThrown)'
    BY DEF iter_nextFails, Nothing, Bare, BareError, Exn, Inv, LossInv, NullThrown,
       BareHeld, NothingIsLost
  <1>10. Latest'
    BY DEF iter_nextFails, PyFails, JSFails, Inv, StrayInv, Latest
  <1>11. (RunsClean /\ MainClean)'
    BY DEF iter_nextFails, PyFails, JSFails, Inv, StrayInv, Latest, RunsClean, MainClean
  <1>12. OverlaidByExit'
    BY Holds, <1>2 DEF iter_nextFails, Inv, StrayInv, OverlaidByExit, Throws, Marks
  <1>13. FormInv'
    BY <1>3 DEF iter_nextFails, Inv, FormInv
  <1> QED  BY <1>1, <1>4, <1>5, <1>6, <1>7, <1>8, <1>9, <1>10, <1>11, <1>12, <1>13
     DEF Inv, TypeInv, LossInv, StrayInv, NothingIsLost, NullThrown, Popped

LEMMA IteratorFailsKeeps ==
    ASSUME Inv, iter_nextFails, ~Ends
    PROVE  Inv'
  <1>1. Popped
    BY Holds, Pop DEF iter_nextFails
  <1>2. Kind(pyErr)' = Kind(pyErr) /\ Kind(jsExn)' = Kind(jsExn)
    BY DEF iter_nextFails, Kind
  <1>3. TypeOK'
    BY Holds, <1>1 DEF iter_nextFails, TypeOK, StackInv, Popped
  <1>4. Distinct'
    BY <1>2 DEF iter_nextFails, Inv, LossInv, Distinct
  <1>5. BareFailure'
    BY Holds DEF iter_nextFails, BareFailure, TypeOK
  <1>6. ({i \in Open : kinds[i] # "null"} \subseteq InFlight)'
    BY DEF iter_nextFails, Inv, LossInv, NothingIsLost, InFlight, Open
  <1>7. (InFlight \subseteq Open)'
    BY DEF iter_nextFails, Inv, LossInv, NothingIsLost, InFlight, Open
  <1>8. (BareHeld => NullThrown)'
    BY DEF iter_nextFails, Inv, LossInv, NullThrown, BareHeld, NothingIsLost
  <1>9. Latest'
    BY DEF iter_nextFails, PyFails, JSFails, Inv, StrayInv, Latest
  <1>10. (RunsClean /\ MainClean)'
    BY DEF iter_nextFails, PyFails, RunsClean, MainClean
  <1>11. OverlaidByExit'
    BY DEF iter_nextFails, Inv, StrayInv, OverlaidByExit
  <1>12. FormInv'
    BY <1>2 DEF iter_nextFails, Inv, FormInv
  <1> QED  BY <1>1, <1>3, <1>4, <1>5, <1>6, <1>7, <1>8, <1>9, <1>10, <1>11, <1>12
     DEF Inv, TypeInv, LossInv, StrayInv, NothingIsLost, NullThrown, Popped

-----------------------------------------------------------------------------
(* The steps of a JavaScript frame. *)

LEMMA ThrowKeeps ==
    ASSUME Inv, NEW kind \in JSKinds, Throw(kind)
    PROVE  Inv'
  <1>1. Stays
    BY Holds, Stay DEF Throw
  <1>2. Adds(kind, jsExn, "overlaid")
    BY Holds, NewFacts DEF Throw, Kinds, Fates
  <1>3. Kind(pyErr)' = Kind(pyErr) /\ Kind(jsExn)' = kind
    BY Holds, <1>2 DEF Throw, Exn, Kind, Adds
  <1>4. TypeOK'
    BY Holds, <1>1, <1>2 DEF Throw, TypeOK, PyFails, JSRuns, Exn, JSForms, Fates, Adds,
       Stays
  <1>5. Distinct'
    BY Holds, <1>2, <1>3 DEF Throw, Exn, Inv, LossInv, Distinct, Adds
  <1>6. BareFailure'
    BY DEF Throw, Nothing, Exn, BareFailure
  <1>7. ({i \in Open : kinds[i] # "null"} \subseteq InFlight)'
    BY Holds, <1>2 DEF Throw, Exn, Inv, LossInv, NothingIsLost, InFlight, Open, Adds
  <1>8. (InFlight \subseteq Open)'
    BY <1>2 DEF Throw, Exn, Inv, LossInv, Distinct, NothingIsLost, InFlight, Open, Adds
  <1>9. (BareHeld => NullThrown)'
    BY Holds, <1>2 DEF Throw, Exn, Inv, LossInv, NullThrown, BareHeld, NothingIsLost,
       TypeOK, Adds
  <1>10. Latest'
    BY Holds, <1>1, <1>3 DEF Throw, JSRuns, JSFails, Exn, Inv, StrayInv, Latest,
       RunsClean, Stays
  <1>11. (RunsClean /\ MainClean)'
    BY DEF Throw, RunsClean, MainClean
  <1>12. OverlaidByExit'
    BY Holds, <1>2 DEF Throw, JSRuns, Inv, StrayInv, RunsClean, OverlaidByExit, Throws,
       Adds
  <1>13. FormInv'
    BY <1>3 DEF Throw, JSKinds, Exn, Inv, FormInv
  <1> QED  BY <1>1, <1>4, <1>5, <1>6, <1>7, <1>8, <1>9, <1>10, <1>11, <1>12, <1>13
     DEF Inv, TypeInv, LossInv, StrayInv, NothingIsLost, NullThrown, Stays

LEMMA CatchKeeps ==
    ASSUME Inv, Catch
    PROVE  Inv'
  <1>1. Stays
    BY Holds, Stay DEF Catch
  <1>2. Marks(jsExn, "caught")
    BY Holds, BecameFacts DEF Catch, Fates
  <1>3. Kind(pyErr)' = Kind(pyErr) /\ Kind(jsExn)' = "none"
    BY Holds DEF Catch, Kind
  <1>4. TypeOK'
    BY Holds, <1>2 DEF Catch, TypeOK, PyFails, Marks
  <1>5. Distinct'
    BY Holds, <1>3 DEF Catch, Inv, LossInv, Distinct
  <1>6. BareFailure'
    BY DEF Catch, JSFails, BareFailure
  <1>7. ({i \in Open : kinds[i] # "null"} \subseteq InFlight)'
    BY <1>2 DEF Catch, Inv, LossInv, NothingIsLost, InFlight, Open, Marks
  <1>8. (InFlight \subseteq Open)'
    BY Holds, <1>2 DEF Catch, Inv, LossInv, Distinct, NothingIsLost, InFlight, Open,
       Marks
  <1>9. (BareHeld => NullThrown)'
    BY DEF Catch, Nothing, BareError, Exn, Inv, LossInv, NullThrown, BareHeld,
       NothingIsLost
  <1>10. Latest'
    BY DEF Catch, Latest
  <1>11. (RunsClean /\ MainClean)'
    BY Holds, <1>3 DEF Catch, JSFails, Inv, StrayInv, Latest, RunsClean, MainClean
  <1>12. OverlaidByExit'
    BY Holds, <1>2 DEF Catch, Inv, StrayInv, OverlaidByExit, Throws, Marks
  <1>13. FormInv'
    BY <1>3 DEF Catch, Inv, FormInv
  <1> QED  BY <1>1, <1>4, <1>5, <1>6, <1>7, <1>8, <1>9, <1>10, <1>11, <1>12, <1>13
     DEF Inv, TypeInv, LossInv, StrayInv, NothingIsLost, NullThrown, Stays

LEMMA callPyFuncKeeps ==
    ASSUME Inv, callPyFunc, Calls(Frame("py", "function")), UNCHANGED <<failing, pyErr, history>>
    PROVE  Inv'
  <1>1. Pushed(Frame("py", "function"))
    BY Holds, Push DEF callPyFunc, Frame, JSRuns, Frames
  <1>2. Kind(pyErr)' = Kind(pyErr) /\ Kind(jsExn)' = Kind(jsExn)
    BY DEF callPyFunc, history, Kind
  <1>3. TypeOK'
    BY Holds, <1>1 DEF callPyFunc, history, TypeOK, PyFails, JSRuns, StackInv, Pushed
  <1>4. Distinct'
    BY <1>2 DEF callPyFunc, history, Inv, LossInv, Distinct
  <1>5. BareFailure'
    BY <1>1 DEF Frame, JSFails, BareFailure, Pushed
  <1>6. ({i \in Open : kinds[i] # "null"} \subseteq InFlight)'
    BY DEF callPyFunc, history, Inv, LossInv, NothingIsLost, InFlight, Open
  <1>7. (InFlight \subseteq Open)'
    BY DEF callPyFunc, history, Inv, LossInv, NothingIsLost, InFlight, Open
  <1>8. (BareHeld => NullThrown)'
    BY DEF callPyFunc, history, Inv, LossInv, NullThrown, BareHeld, NothingIsLost
  <1>9. Latest'
    BY DEF callPyFunc, JSRuns, Inv, StrayInv, Latest, RunsClean
  <1>10. (RunsClean /\ MainClean)'
    BY <1>1, <1>2 DEF callPyFunc, Inv, StrayInv, RunsClean, MainClean, Pushed
  <1>11. OverlaidByExit'
    BY DEF callPyFunc, history, Inv, StrayInv, OverlaidByExit
  <1>12. FormInv'
    BY <1>2 DEF callPyFunc, Inv, FormInv
  <1> QED  BY <1>1, <1>3, <1>4, <1>5, <1>6, <1>7, <1>8, <1>9, <1>10, <1>11, <1>12
     DEF Inv, TypeInv, LossInv, StrayInv, NothingIsLost, NullThrown, Pushed

LEMMA callPyFuncUnconvertibleKeeps ==
    ASSUME Inv, callPyFunc, PyErr_Set("Unconvertible"), failing' = TRUE, UNCHANGED stack
    PROVE  Inv'
  <1>1. Stays
    BY Holds, Stay
  <1>2. Adds("Unconvertible", pyErr, "overlaid")
    BY Holds, NewFacts DEF PyErr_Set, Kinds, Fates
  <1>3. Kind(pyErr)' = "Unconvertible" /\ Kind(jsExn)' = Kind(jsExn)
    BY Holds, <1>2 DEF callPyFunc, PyErr_Set, Exn, Kind, Adds
  <1>4. TypeOK'
    BY Holds, <1>2 DEF callPyFunc, PyErr_Set, TypeOK, Exn, PyForms, Fates, Adds
  <1>5. Distinct'
    BY Holds, <1>2 DEF callPyFunc, PyErr_Set, Exn, Distinct, Adds
  <1>6. BareFailure'
    BY DEF PyErr_Set, Nothing, Exn, BareFailure
  <1>7. ({i \in Open : kinds[i] # "null"} \subseteq InFlight)'
    BY Holds, <1>2 DEF callPyFunc, PyErr_Set, Exn, Inv, LossInv, NothingIsLost,
       InFlight, Open, Adds
  <1>8. (InFlight \subseteq Open)'
    BY <1>2 DEF callPyFunc, PyErr_Set, Exn, Inv, LossInv, Distinct, NothingIsLost,
       InFlight, Open, Adds
  <1>9. (BareHeld => NullThrown)'
    BY Holds, <1>2 DEF PyErr_Set, callPyFunc, Exn, Inv, LossInv, NullThrown, BareHeld,
       NothingIsLost, TypeOK, Adds
  <1>10. Latest'
    BY DEF callPyFunc, JSRuns, Inv, StrayInv, Latest, RunsClean
  <1>11. (RunsClean /\ MainClean)'
    BY DEF RunsClean, MainClean
  <1>12. OverlaidByExit'
    BY Holds, <1>2 DEF callPyFunc, JSRuns, Inv, StrayInv, RunsClean, OverlaidByExit,
       Kind, Throws, Adds
  <1>13. FormInv'
    BY <1>3 DEF callPyFunc, Inv, FormInv
  <1> QED  BY <1>1, <1>4, <1>5, <1>6, <1>7, <1>8, <1>9, <1>10, <1>11, <1>12, <1>13
     DEF Inv, TypeInv, LossInv, StrayInv, NothingIsLost, NullThrown, Stays

LEMMA iter_nextKeeps ==
    ASSUME Inv, iter_next
    PROVE  Inv'
  <1>1. Pushed(Frame("py", "iterator"))
    BY Holds, Push DEF iter_next, Frame, JSRuns, Frames
  <1>2. Kind(pyErr)' = Kind(pyErr) /\ Kind(jsExn)' = Kind(jsExn)
    BY DEF iter_next, history, Kind
  <1>3. TypeOK'
    BY Holds, <1>1 DEF iter_next, history, TypeOK, PyFails, JSRuns, StackInv, Pushed
  <1>4. Distinct'
    BY <1>2 DEF iter_next, history, Inv, LossInv, Distinct
  <1>5. BareFailure'
    BY <1>1 DEF Frame, JSFails, BareFailure, Pushed
  <1>6. ({i \in Open : kinds[i] # "null"} \subseteq InFlight)'
    BY DEF iter_next, history, Inv, LossInv, NothingIsLost, InFlight, Open
  <1>7. (InFlight \subseteq Open)'
    BY DEF iter_next, history, Inv, LossInv, NothingIsLost, InFlight, Open
  <1>8. (BareHeld => NullThrown)'
    BY DEF iter_next, history, Inv, LossInv, NullThrown, BareHeld, NothingIsLost
  <1>9. Latest'
    BY DEF iter_next, JSRuns, Inv, StrayInv, Latest, RunsClean
  <1>10. (RunsClean /\ MainClean)'
    BY <1>1, <1>2 DEF iter_next, Inv, StrayInv, RunsClean, MainClean, Pushed
  <1>11. OverlaidByExit'
    BY DEF iter_next, history, Inv, StrayInv, OverlaidByExit
  <1>12. FormInv'
    BY <1>2 DEF iter_next, Inv, FormInv
  <1> QED  BY <1>1, <1>3, <1>4, <1>5, <1>6, <1>7, <1>8, <1>9, <1>10, <1>11, <1>12
     DEF Inv, TypeInv, LossInv, StrayInv, NothingIsLost, NullThrown, Pushed

LEMMA enqueueWithDelayKeeps ==
    ASSUME Inv, enqueueWithDelay
    PROVE  Inv'
  <1>1. Stays
    BY Holds, Stay DEF enqueueWithDelay
  <1>2. Kind(pyErr)' = Kind(pyErr) /\ Kind(jsExn)' = Kind(jsExn)
    BY DEF enqueueWithDelay, history, Kind
  <1>3. TypeOK'
    BY Holds DEF enqueueWithDelay, history, IsSystemExit, TypeOK, Nothing, Exn
  <1>4. Distinct'
    BY DEF enqueueWithDelay, history, IsSystemExit, Inv, LossInv, Distinct
  <1>5. BareFailure'
    BY DEF enqueueWithDelay, IsSystemExit, Nothing, Exn, BareFailure
  <1>6. ({i \in Open : kinds[i] # "null"} \subseteq InFlight)'
    BY DEF enqueueWithDelay, history, Inv, LossInv, NothingIsLost, InFlight, Open
  <1>7. (InFlight \subseteq Open)'
    BY DEF enqueueWithDelay, history, Inv, LossInv, NothingIsLost, InFlight, Open
  <1>8. (BareHeld => NullThrown)'
    BY DEF enqueueWithDelay, history, Inv, LossInv, NullThrown, BareHeld, NothingIsLost
  <1>9. Latest'
    BY <1>1, <1>2 DEF enqueueWithDelay, JSFails, Inv, StrayInv, Latest, Stays
  <1>10. (RunsClean /\ MainClean)'
    BY DEF enqueueWithDelay, RunsClean, MainClean
  <1>11. OverlaidByExit'
    BY DEF enqueueWithDelay, history, Inv, StrayInv, OverlaidByExit
  <1>12. FormInv'
    BY <1>2 DEF enqueueWithDelay, Inv, FormInv
  <1> QED  BY <1>1, <1>3, <1>4, <1>5, <1>6, <1>7, <1>8, <1>9, <1>10, <1>11, <1>12
     DEF Inv, TypeInv, LossInv, StrayInv, NothingIsLost, NullThrown, Stays

LEMMA JSReturnKeeps ==
    ASSUME Inv, JSReturn, failing' = ~Succeeds(Top.via), UNCHANGED <<pyErr, history>>
    PROVE  Inv'
  <1>1. Popped
    BY Holds, Pop DEF JSReturn
  <1>2. Kind(pyErr)' = Kind(pyErr) /\ Kind(jsExn)' = Kind(jsExn)
    BY DEF JSReturn, history, Kind
  <1>3. TypeOK'
    BY Holds, <1>1 DEF JSReturn, Succeeds, history, TypeOK, PyFails, StackInv, Popped
  <1>4. Distinct'
    BY <1>2 DEF JSReturn, history, Inv, LossInv, Distinct
  <1>5. BareFailure'
    BY DEF Succeeds, JSFails, BareFailure
  <1>6. ({i \in Open : kinds[i] # "null"} \subseteq InFlight)'
    BY DEF JSReturn, history, Inv, LossInv, NothingIsLost, InFlight, Open
  <1>7. (InFlight \subseteq Open)'
    BY DEF JSReturn, history, Inv, LossInv, NothingIsLost, InFlight, Open
  <1>8. (BareHeld => NullThrown)'
    BY DEF JSReturn, history, Inv, LossInv, NullThrown, BareHeld, NothingIsLost
  <1>9. Latest'
    BY DEF JSReturn, JSRuns, Inv, StrayInv, Latest, RunsClean
  <1>10. (RunsClean /\ MainClean)'
    BY DEF JSReturn, Succeeds, JSRuns, Inv, StrayInv, RunsClean, MainClean
  <1>11. OverlaidByExit'
    BY DEF JSReturn, history, Inv, StrayInv, OverlaidByExit
  <1>12. FormInv'
    BY <1>2 DEF JSReturn, Inv, FormInv
  <1> QED  BY <1>1, <1>3, <1>4, <1>5, <1>6, <1>7, <1>8, <1>9, <1>10, <1>11, <1>12
     DEF Inv, TypeInv, LossInv, StrayInv, NothingIsLost, NullThrown, Popped

LEMMA JSReturnUnconvertibleKeeps ==
    ASSUME Inv, JSReturn, PyErr_Set("Unconvertible"), failing' = TRUE
    PROVE  Inv'
  <1>1. Popped
    BY Holds, Pop DEF JSReturn
  <1>2. Adds("Unconvertible", pyErr, "overlaid")
    BY Holds, NewFacts DEF PyErr_Set, Kinds, Fates
  <1>3. Kind(pyErr)' = "Unconvertible" /\ Kind(jsExn)' = Kind(jsExn)
    BY Holds, <1>2 DEF JSReturn, PyErr_Set, Exn, Kind, Adds
  <1>4. TypeOK'
    BY Holds, <1>1, <1>2 DEF JSReturn, PyErr_Set, TypeOK, Exn, PyForms, StackInv, Fates,
       Adds, Popped
  <1>5. Distinct'
    BY Holds, <1>2 DEF JSReturn, PyErr_Set, Exn, Distinct, Adds
  <1>6. BareFailure'
    BY <1>1 DEF JSReturn, JSRuns, JSFails, BareFailure, Popped
  <1>7. ({i \in Open : kinds[i] # "null"} \subseteq InFlight)'
    BY Holds, <1>2 DEF JSReturn, PyErr_Set, Exn, Inv, LossInv, NothingIsLost, InFlight,
       Open, Adds
  <1>8. (InFlight \subseteq Open)'
    BY <1>2 DEF JSReturn, PyErr_Set, Exn, Inv, LossInv, Distinct, NothingIsLost,
       InFlight, Open, Adds
  <1>9. (BareHeld => NullThrown)'
    BY Holds, <1>2 DEF PyErr_Set, JSReturn, Exn, Inv, LossInv, NullThrown, BareHeld,
       NothingIsLost, TypeOK, Adds
  <1>10. Latest'
    BY DEF JSReturn, JSRuns, Inv, StrayInv, Latest, RunsClean
  <1>11. (RunsClean /\ MainClean)'
    BY DEF RunsClean, MainClean
  <1>12. OverlaidByExit'
    BY Holds, <1>2 DEF JSReturn, JSRuns, Inv, StrayInv, RunsClean, OverlaidByExit, Kind,
       Throws, Adds
  <1>13. FormInv'
    BY <1>3 DEF JSReturn, Inv, FormInv
  <1> QED  BY <1>1, <1>4, <1>5, <1>6, <1>7, <1>8, <1>9, <1>10, <1>11, <1>12, <1>13
     DEF Inv, TypeInv, LossInv, StrayInv, NothingIsLost, NullThrown, Popped

LEMMA EntryFailsWithPyErrKeeps ==
    ASSUME Inv, EntryFails, pyErr # Nothing
    PROVE  Inv'
  <1>1. Popped
    BY Holds, Pop DEF EntryFails
  <1>2. Kind(pyErr)' = Kind(pyErr) /\ Kind(jsExn)' = Kind(jsExn)
    BY DEF EntryFails, setSpiderMonkeyException, history, Kind
  <1>3. TypeOK'
    BY Holds, <1>1 DEF EntryFails, setSpiderMonkeyException, history, TypeOK, StackInv,
       Popped
  <1>4. Distinct'
    BY <1>2 DEF EntryFails, setSpiderMonkeyException, history, Inv, LossInv, Distinct
  <1>5. BareFailure'
    BY DEF EntryFails, setSpiderMonkeyException, BareFailure
  <1>6. ({i \in Open : kinds[i] # "null"} \subseteq InFlight)'
    BY DEF EntryFails, setSpiderMonkeyException, history, Inv, LossInv, NothingIsLost,
       InFlight, Open
  <1>7. (InFlight \subseteq Open)'
    BY DEF EntryFails, setSpiderMonkeyException, history, Inv, LossInv, NothingIsLost,
       InFlight, Open
  <1>8. (BareHeld => NullThrown)'
    BY DEF EntryFails, setSpiderMonkeyException, history, Inv, LossInv, NullThrown,
       BareHeld, NothingIsLost
  <1>9. Latest'
    BY DEF EntryFails, setSpiderMonkeyException, Latest
  <1>10. (RunsClean /\ MainClean)'
    BY DEF EntryFails, JSFails, RunsClean, MainClean
  <1>11. OverlaidByExit'
    BY DEF EntryFails, setSpiderMonkeyException, history, Inv, StrayInv, OverlaidByExit
  <1>12. FormInv'
    BY <1>2 DEF EntryFails, setSpiderMonkeyException, Inv, FormInv
  <1> QED  BY <1>1, <1>3, <1>4, <1>5, <1>6, <1>7, <1>8, <1>9, <1>10, <1>11, <1>12
     DEF Inv, TypeInv, LossInv, StrayInv, NothingIsLost, NullThrown, Popped

LEMMA EntryFailsKeeps ==
    ASSUME Inv, EntryFails, pyErr = Nothing, jsExn # Nothing
    PROVE  Inv'
  <1>1. Popped
    BY Holds, Pop DEF EntryFails
  <1>2. pyErr'.id = jsExn.id /\ (pyErr'.form = "null" => Kind(jsExn) = "null")
    BY Holds DEF EntryFails, setSpiderMonkeyException, DictType_getPyObject, Exn,
       TypeOK, JSForms, BareError
  <1>3. Kind(pyErr)' = Kind(jsExn) /\ Kind(jsExn)' = "none"
    BY Holds DEF EntryFails, setSpiderMonkeyException, DictType_getPyObject, history,
       Exn, Kind
  <1>4. TypeOK'
    BY Holds, <1>1 DEF EntryFails, setSpiderMonkeyException, DictType_getPyObject,
       history, TypeOK, BareError, Exn, PyForms, JSForms, StackInv, Popped
  <1>5. Distinct'
    BY <1>2, <1>3 DEF EntryFails, setSpiderMonkeyException, history, Inv, LossInv,
       Distinct
  <1>6. BareFailure'
    BY <1>1 DEF EntryFails, JSFails, BareFailure, Popped
  <1>7. ({i \in Open : kinds[i] # "null"} \subseteq InFlight)'
    BY DEF EntryFails, setSpiderMonkeyException, DictType_getPyObject, history, Exn,
       Inv, LossInv, NothingIsLost, InFlight, Open
  <1>8. (InFlight \subseteq Open)'
    BY DEF EntryFails, setSpiderMonkeyException, DictType_getPyObject, history, Exn,
       Inv, LossInv, NothingIsLost, InFlight, Open
  <1>9. (BareHeld => NullThrown)'
    BY Holds, <1>2 DEF EntryFails, setSpiderMonkeyException, history, Inv, LossInv,
       NullThrown, BareHeld, NothingIsLost
  <1>10. Latest'
    BY DEF EntryFails, setSpiderMonkeyException, Latest
  <1>11. (RunsClean /\ MainClean)'
    BY DEF EntryFails, setSpiderMonkeyException, Inv, StrayInv, RunsClean, MainClean
  <1>12. OverlaidByExit'
    BY DEF EntryFails, setSpiderMonkeyException, history, Inv, StrayInv, OverlaidByExit
  <1>13. FormInv'
    BY <1>3 DEF EntryFails, setSpiderMonkeyException, DictType_getPyObject, Exn, Inv,
       FormInv
  <1> QED  BY <1>1, <1>4, <1>5, <1>6, <1>7, <1>8, <1>9, <1>10, <1>11, <1>12, <1>13
     DEF Inv, TypeInv, LossInv, StrayInv, NothingIsLost, NullThrown, Popped

LEMMA EntryFailsBareKeeps ==
    ASSUME Inv, EntryFails, pyErr = Nothing, jsExn = Nothing
    PROVE  Inv'
  <1>1. Popped
    BY Holds, Pop DEF EntryFails
  <1>2. Kind(pyErr)' = "none" /\ Kind(jsExn)' = "none"
    BY Holds DEF EntryFails, setSpiderMonkeyException, Kind
  <1>3. TypeOK'
    BY Holds, <1>1 DEF EntryFails, setSpiderMonkeyException, history, TypeOK, Nothing,
       Bare, Exn, StackInv, Popped
  <1>4. Distinct'
    BY DEF EntryFails, setSpiderMonkeyException, history, Bare, Exn, Inv, LossInv,
       Distinct
  <1>5. BareFailure'
    BY DEF EntryFails, history, Inv, LossInv, BareFailure, NullThrown
  <1>6. ({i \in Open : kinds[i] # "null"} \subseteq InFlight)'
    BY DEF EntryFails, setSpiderMonkeyException, history, Inv, LossInv, NothingIsLost,
       InFlight, Open
  <1>7. (InFlight \subseteq Open)'
    BY Holds DEF EntryFails, setSpiderMonkeyException, InFlight
  <1>8. (BareHeld => NullThrown)'
    BY DEF EntryFails, history, Inv, LossInv, BareFailure, NullThrown
  <1>9. Latest'
    BY DEF EntryFails, setSpiderMonkeyException, Latest
  <1>10. (RunsClean /\ MainClean)'
    BY DEF EntryFails, JSFails, RunsClean, MainClean
  <1>11. OverlaidByExit'
    BY DEF EntryFails, setSpiderMonkeyException, history, Inv, StrayInv, OverlaidByExit
  <1>12. FormInv'
    BY <1>2 DEF FormInv
  <1> QED  BY <1>1, <1>3, <1>4, <1>5, <1>6, <1>7, <1>8, <1>9, <1>10, <1>11, <1>12
     DEF Inv, TypeInv, LossInv, StrayInv, NothingIsLost, NullThrown, Popped

LEMMA getKeyFailsKeeps ==
    ASSUME Inv, getKeyFails
    PROVE  Inv'
  <1>1. Popped
    BY Holds, Pop DEF getKeyFails
  <1>2. Kind(pyErr)' = Kind(pyErr) /\ Kind(jsExn)' = Kind(jsExn)
    BY DEF getKeyFails, history, Kind
  <1>3. TypeOK'
    BY Holds, <1>1 DEF getKeyFails, history, TypeOK, PyFails, StackInv, Popped
  <1>4. Distinct'
    BY <1>2 DEF getKeyFails, history, Inv, LossInv, Distinct
  <1>5. BareFailure'
    BY DEF getKeyFails, history, Inv, LossInv, BareFailure, NullThrown
  <1>6. ({i \in Open : kinds[i] # "null"} \subseteq InFlight)'
    BY DEF getKeyFails, history, Inv, LossInv, NothingIsLost, InFlight, Open
  <1>7. (InFlight \subseteq Open)'
    BY DEF getKeyFails, history, Inv, LossInv, NothingIsLost, InFlight, Open
  <1>8. (BareHeld => NullThrown)'
    BY DEF getKeyFails, history, Inv, LossInv, NullThrown, BareHeld, NothingIsLost
  <1>9. Latest'
    BY DEF getKeyFails, Latest
  <1>10. (RunsClean /\ MainClean)'
    BY DEF getKeyFails, RunsClean, MainClean
  <1>11. OverlaidByExit'
    BY DEF getKeyFails, OverlaidByExit
  <1>12. FormInv'
    BY <1>2 DEF getKeyFails, Inv, FormInv
  <1> QED  BY <1>1, <1>3, <1>4, <1>5, <1>6, <1>7, <1>8, <1>9, <1>10, <1>11, <1>12
     DEF Inv, TypeInv, LossInv, StrayInv, NothingIsLost, NullThrown, Popped

-----------------------------------------------------------------------------

LEMMA NextInv == Inv /\ [Next]_vars => Inv'
  <1> SUFFICES ASSUME Inv, [Next]_vars PROVE Inv'
    OBVIOUS
  <1>1. ASSUME NEW kind \in PyKinds, Raise(kind) PROVE Inv'
    BY <1>1, RaiseKeeps
  <1>2. CASE _Py_CheckFunctionResult \/ Surface \/ Except
    BY <1>2, CheckFunctionResultKeeps, SurfaceKeeps, ExceptKeeps
  <1>3. ASSUME NEW via \in {"eval", "call", "getter"}, Enter(via) PROVE Inv'
    BY <1>3, EnterKeeps
  <1>4. CASE PyReturn
    BY <1>4, PyReturnKeeps, PyReturnUnconvertibleKeeps DEF PyReturn
  <1>5. CASE callPyFuncFails
    BY <1>5, SystemExitKeeps, setPyExceptionKeeps, setPyExceptionNullKeeps
  <1>6. CASE iter_nextFails
    BY <1>6, IteratorEndsKeeps, IteratorFailsKeeps
  <1>7. ASSUME NEW kind \in JSKinds, Throw(kind) PROVE Inv'
    BY <1>7, ThrowKeeps
  <1>8. CASE Catch \/ iter_next \/ enqueueWithDelay
    BY <1>8, CatchKeeps, iter_nextKeeps, enqueueWithDelayKeeps
  <1>9. CASE callPyFunc
    BY <1>9, callPyFuncKeeps, callPyFuncUnconvertibleKeeps DEF callPyFunc
  <1>10. CASE JSReturn
    BY <1>10, JSReturnKeeps, JSReturnUnconvertibleKeeps DEF JSReturn
  <1>11. CASE EntryFails
    BY <1>11, EntryFailsWithPyErrKeeps, EntryFailsKeeps, EntryFailsBareKeeps
  <1>12. CASE getKeyFails
    BY <1>12, getKeyFailsKeeps
  <1>13. CASE UNCHANGED vars
    <2>1. StackInv' /\ Top' = Top
      BY <1>13, Stay DEF Stays, Inv, TypeInv, vars
    <2>2. TypeOK'
      BY <1>13, <2>1 DEF Inv, TypeInv, TypeOK, PyFails, vars
    <2>3. LossInv'
      BY <1>13, <2>1 DEF Inv, LossInv, Distinct, Kind, BareFailure, NullThrown, JSFails,
         NothingIsLost, InFlight, Open, BareHeld, vars
    <2>4. StrayInv'
      BY <1>13, <2>1 DEF Inv, StrayInv, Latest, RunsClean, MainClean, OverlaidByExit,
         Kind, JSFails, vars
    <2>5. FormInv'
      BY <1>13 DEF Inv, FormInv, Kind, vars
    <2> QED  BY <2>1, <2>2, <2>3, <2>4, <2>5 DEF Inv, TypeInv
  <1> QED
    BY <1>1, <1>2, <1>3, <1>4, <1>5, <1>6, <1>7, <1>8, <1>9, <1>10, <1>11, <1>12, <1>13
       DEF Next

\* Each indicator holds an exception of its own language, and a failure of Python always
\* has its exception.
THEOREM TypeCorrect == Spec => []TypeOK
  <1>1. Inv => TypeOK
    BY DEF Inv, TypeInv
  <1> QED  BY InitInv, NextInv, <1>1, PTL DEF Spec

\* On a stack of any depth, an exception that nobody caught, replaced or took for the end
\* of an iteration is in one of the two indicators; all that is lost is a thrown null.
THEOREM NoneIsLost == Spec => []NothingIsLost
  <1>1. Inv => NothingIsLost
    BY DEF Inv, LossInv
  <1> QED  BY InitInv, NextInv, <1>1, PTL DEF Spec

\* Code runs on over a pending exception only where setPyException leaves SystemExit to
\* Python or a conversion failed, and such an exception is raised before the main program
\* goes on.
THEOREM OnlyExitStaysPending == Spec => []PendingOnlyByExit
  <1>1. Inv => PendingOnlyByExit
    BY DEF Inv, StrayInv, RunsClean, MainClean, OverlaidByExit, PendingOnlyByExit
  <1> QED  BY InitInv, NextInv, <1>1, PTL DEF Spec

\* In JavaScript only what is pending can be caught.
LEMMA HandlesIsCatch ==
    ASSUME StackInv, [Next]_vars, Handles, Top.lang = "js"
    PROVE  jsExn # Nothing
  <1>1. Len(stack) \in Nat /\ stack \in Seq(Frames)
    BY DEF StackInv
  <1>2. Returns => stack' # stack
    <2>1. Returns => Len(stack') = Len(stack) - 1
      BY <1>1 DEF Returns
    <2> QED  BY <1>1, <2>1
  <1>3. ~PyRuns /\ ~PyFails /\ ~JSRuns /\ ~EntryFails /\ ~getKeyFails
    BY <1>2 DEF Handles, PyRuns, PyFails, JSRuns, EntryFails, getKeyFails
  <1> QED
    BY <1>3 DEF Next, Handles, Raise, _Py_CheckFunctionResult, Surface, Except, Enter,
       PyReturn, callPyFuncFails, iter_nextFails, Throw, Catch, callPyFunc, iter_next,
       enqueueWithDelay, JSReturn, vars

\* A handler gets the latest exception, in JavaScript the very object that was thrown
\* however often it has crossed, and never SystemExit.
THEOREM HandlersGetTheirOwn == Spec => CaughtAsThrown
  <1> DEFINE Right ==
        Handles =>
          /\ Kind(Caught) = "object" => Caught.form = "thrown"
          /\ Top.lang = "js" => Kind(Caught) # "SystemExit"
          /\ ~abandoned => \A i \in InFlight : i <= Caught.id
  <1>1. Inv /\ [Next]_vars => [Right]_vars
    <2> SUFFICES ASSUME Inv, [Next]_vars, Handles PROVE Right
      OBVIOUS
    <2>1. Kind(Caught) = "object" => Caught.form = "thrown"
      BY DEF Inv, FormInv, Caught
    <2>2. Top.lang = "js" => Kind(Caught) # "SystemExit"
      BY DEF Inv, FormInv, Caught
    <2>3. ASSUME ~abandoned, NEW i \in InFlight PROVE i <= Caught.id
      <3>1. CASE Top.lang = "js"
        BY <2>3, <3>1, Holds, HandlesIsCatch DEF Inv, StrayInv, Latest, Caught, InFlight
      <3>2. CASE Top.lang # "js"
        BY <2>3, <3>2, Holds DEF Inv, StrayInv, Latest, Caught, InFlight, JSFails
      <3> QED  BY <3>1, <3>2
    <2> QED  BY <2>1, <2>2, <2>3
  <1> QED  BY InitInv, NextInv, <1>1, PTL DEF Spec, CaughtAsThrown
===============================================================================
