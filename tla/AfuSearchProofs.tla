---------------------------- MODULE AfuSearchProofs ----------------------------
(***************************************************************************)
(* The open calls, for any number of threads, devices, contexts and other  *)
(* processes, any environment and any requests.                            *)
(***************************************************************************)
EXTENDS AfuSearch, TLAPS

SearchTypeOK ==
  /\ pc \in [Threads -> Calling \cup {"idle", "returned"}]
  /\ inuse \in [Devs -> SUBSET (Threads \cup Others)]
  /\ request \in [Threads -> Requests \cup {NoRequest}]
  /\ found \in [Threads -> SUBSET Devs]
  /\ left \in [Threads -> SUBSET Devs]
  /\ ret \in [Threads -> Results]
  /\ afu \in [Threads -> Devs \cup {OCXL_INVALID_AFU}]
  /\ refused \in [Threads -> SUBSET Devs]

\* The places in a call and the results are different names.
LEMMA Names ==
  /\ Calling \subseteq Calling \cup {"idle", "returned"}
  /\ {"idle", "returned"} \subseteq Calling \cup {"idle", "returned"}
  /\ {"init", "trace_all", "errors_all", "sys_path", "inited", "path", "open", "finish"} \subseteq Calling
  /\ "idle" \notin Calling /\ "returned" \notin Calling
  /\ Errors \subseteq Results /\ "OCXL_OK" \in Results /\ "OCXL_OK" \notin Errors
  /\ {"OCXL_NO_MEM", "OCXL_NO_DEV", "OCXL_INTERNAL_ERROR", "OCXL_NO_MORE_CONTEXTS"} \subseteq Errors
  BY SMTT(30), Z3T(30) DEF Calling, Errors, Results

\* Devices are numbers, and OCXL_INVALID_AFU is none of them.
LEMMA Numbers == Devs \subseteq Nat /\ OCXL_INVALID_AFU \notin Devs
  BY DevsAssumption, SMTT(30), Z3T(30) DEF Devs, OCXL_INVALID_AFU

\* The mark for no call is no set of message sources.
LEMMA NoCallIsNoSource == NoCall \notin Sources
  BY SMTT(30), Z3T(30) DEF NoCall, Sources, OCXL_ERRORS, OCXL_TRACING

-------------------------------------------------------------------------------
(* Types of the search.                                                      *)

\* The begin of an open call keeps the types.
LEMMA BeginTypes ==
  ASSUME SearchTypeOK, NEW t \in Threads, NEW r \in Requests \cup {NoRequest}, NEW D \in SUBSET Devs,
         Begin(t, r, D)
  PROVE  SearchTypeOK'
<1>1. "init" \in Calling \cup {"idle", "returned"} /\ "OCXL_INTERNAL_ERROR" \in Results
  BY Names, Zenon
<1> QED
  BY <1>1, SMTT(30), Z3T(30) DEF SearchTypeOK, Begin, Goto

\* A failing return keeps the types.
LEMMA FailTypes ==
  ASSUME SearchTypeOK, NEW t \in Threads, NEW rc \in Errors, Fail(t, rc),
         UNCHANGED <<request, found, left, refused>>,
         inuse' \in [Devs -> SUBSET (Threads \cup Others)]
  PROVE  SearchTypeOK'
<1>1. "returned" \in Calling \cup {"idle", "returned"} /\ rc \in Results
  BY Names, Zenon
<1> QED
  BY <1>1, SMTT(30), Z3T(30) DEF SearchTypeOK, Fail, Goto

\* So does the end of a call, or of a handle.
LEMMA IdleTypes ==
  ASSUME SearchTypeOK, NEW t \in Threads, Idle(t),
         inuse' \in [Devs -> SUBSET (Threads \cup Others)]
  PROVE  SearchTypeOK'
<1>1. "idle" \in Calling \cup {"idle", "returned"} /\ "OCXL_OK" \in Results
  BY Names, Zenon
<1> QED
  BY <1>1, SMTT(30), Z3T(30) DEF SearchTypeOK, Idle, Goto

\* The steps that only go on to another place in the call.
LEMMA GoesOn ==
  ASSUME NEW t \in Threads, CallsInit(t) \/ HasPath(t) \/ \E d \in Devs : GetAfuByPath(t, d)
  PROVE  /\ UNCHANGED <<inuse, searchVars>>
         /\ pc[t] \in Calling \ {"finish"}
         /\ \E l \in Calling \ {"finish"} : pc' = [pc EXCEPT ![t] = l]
  BY SMTT(30), Z3T(30) DEF CallsInit, libocxl_init, AlreadyInited, InitLock, InitTraceAll, InitErrorsAll, InitDone,
     HasPath, GetAfuByPath, Goto, Calling, searchVars

\* The steps of the search that give an error.
Fails(t) ==
  \/ GlobFails(t)
  \/ \E d \in Devs : GetAfuByPathFails(t, d) \/ OpenDeviceFails(t, d)

\* A failure outside the open of a device returns some other error than a full device.
LEMMA FailsWith ==
  ASSUME NEW t \in Threads, Fails(t)
  PROVE  /\ pc[t] \in Calling \ {"finish"} /\ UNCHANGED <<inuse, request, found, left, refused>>
         /\ \E rc \in Errors \ {"OCXL_NO_MORE_CONTEXTS"} : Fail(t, rc)
<1>1. /\ pc[t] \in Calling \ {"finish"} /\ UNCHANGED <<inuse, request, found, left, refused>>
      /\ Fail(t, "OCXL_NO_DEV") \/ Fail(t, "OCXL_NO_MEM") \/ Fail(t, "OCXL_INTERNAL_ERROR")
  BY SMTT(30), Z3T(30) DEF Fails, GlobFails, ToList, GetAfuByPathFails, OpenDeviceFails, Calling
<1>2. {"OCXL_NO_DEV", "OCXL_NO_MEM", "OCXL_INTERNAL_ERROR"} \subseteq Errors \ {"OCXL_NO_MORE_CONTEXTS"}
  BY SMTT(30), Z3T(30) DEF Errors
<1> QED
  BY <1>1, <1>2, Zenon

\* Every step of an open call keeps the types.
LEMMA CallTypes ==
  ASSUME SearchTypeOK, NEW t \in Threads, CallStep(t)
  PROVE  SearchTypeOK'
<1>1. CASE CallsInit(t) \/ HasPath(t) \/ \E d \in Devs : GetAfuByPath(t, d)
  <2>1. PICK l \in Calling : pc' = [pc EXCEPT ![t] = l] /\ UNCHANGED <<inuse, searchVars>>
    BY <1>1, GoesOn, Zenon
  <2> QED
    BY <2>1, Zenon DEF SearchTypeOK, searchVars
<1>2. CASE Glob(t)
  <2>1. PICK S \in SUBSET Devs : found' = [found EXCEPT ![t] = S] /\ left' = [left EXCEPT ![t] = S]
    BY <1>2, ZenonT(60) DEF Glob
  <2>2. pc' = [pc EXCEPT ![t] = "init"] /\ UNCHANGED <<inuse, request, ret, afu, refused>>
    BY <1>2, Zenon DEF Glob, Goto
  <2> QED
    BY <2>1, <2>2, Names, SMTT(30), Z3T(30) DEF SearchTypeOK
<1>3. CASE Fails(t)
  BY <1>3, FailsWith, FailTypes, Zenon DEF SearchTypeOK
<1>4. ASSUME NEW d \in Devs, OpenDevice(t, d) PROVE SearchTypeOK'
  BY <1>4, Names, SMTT(30), Z3T(30) DEF SearchTypeOK, OpenDevice, Goto, searchVars
<1>5. ASSUME NEW d \in Devs, NoMoreContexts(t, d) PROVE SearchTypeOK'
  <2>1. PICK l \in Calling \cup {"idle", "returned"} : pc' = [pc EXCEPT ![t] = l]
    BY <1>5, Names, Zenon DEF NoMoreContexts, Goto
  <2>2. "OCXL_NO_MORE_CONTEXTS" \in Results
    BY Names, Zenon
  <2> QED
    BY <1>5, <2>1, <2>2, SMTT(30), Z3T(30) DEF SearchTypeOK, NoMoreContexts
<1>6. ASSUME NEW d \in Devs, FinishOpen(t, d) PROVE SearchTypeOK'
  <2>1. "returned" \in Calling \cup {"idle", "returned"} /\ "OCXL_OK" \in Results
    BY Names, Zenon
  <2> QED
    BY <1>6, <2>1, SMTT(30), Z3T(30) DEF SearchTypeOK, FinishOpen, Goto
<1>7. ASSUME NEW d \in Devs, FinishFails(t, d) PROVE SearchTypeOK'
  <2>1. Fail(t, "OCXL_NO_DEV") /\ UNCHANGED <<request, found, left, refused>> /\ "OCXL_NO_DEV" \in Errors
    BY <1>7, Names, Zenon DEF FinishFails
  <2>2. inuse' \in [Devs -> SUBSET (Threads \cup Others)]
    BY <1>7, SMTT(30), Z3T(30) DEF FinishFails, SearchTypeOK
  <2> QED
    BY <2>1, <2>2, FailTypes, Zenon
<1> QED
  BY <1>1, <1>2, <1>3, <1>4, <1>5, <1>6, <1>7, Zenon DEF CallStep, DeviceStep, Fails

\* What the application does between calls keeps the types.
LEMMA ApplicationTypes ==
  ASSUME SearchTypeOK, NEW t \in Threads, Application(t)
  PROVE  SearchTypeOK'
<1>1. CASE ocxl_afu_open_specific(t) \/ ocxl_afu_open_from_dev(t)
  <2>1. PICK r \in Requests \cup {NoRequest}, D \in SUBSET Devs : Begin(t, r, D)
    BY <1>1, ZenonT(60) DEF ocxl_afu_open_specific, ocxl_afu_open_from_dev
  <2> QED
    BY <2>1, BeginTypes, Zenon
<1>2. CASE ocxl_afu_close(t)
  <2>1. inuse' \in [Devs -> SUBSET (Threads \cup Others)]
    BY <1>2, ZenonT(60) DEF ocxl_afu_close, SearchTypeOK
  <2> QED
    BY <1>2, <2>1, IdleTypes, Zenon DEF ocxl_afu_close
<1>3. CASE GivesUp(t)
  BY <1>3, IdleTypes, Zenon DEF GivesUp, SearchTypeOK
<1>4. CASE SetsMessages(t)
  BY <1>4, Zenon DEF SetsMessages, ocxl_afu_enable_messages, SearchTypeOK, searchVars
<1> QED
  BY <1>1, <1>2, <1>3, <1>4, Zenon DEF Application

\* Other processes and the process-wide calls keep the types.
LEMMA SystemTypes ==
  ASSUME SearchTypeOK, System \/ ProcessWide
  PROVE  SearchTypeOK'
<1>1. CASE ProcessWide
  BY <1>1, Zenon DEF ProcessWide, EnableErrors, EnableTracing, SearchTypeOK, searchVars
<1>2. CASE System
  <2>1. PICK d \in Devs, o \in Others : OtherOpens(o, d) \/ OtherCloses(o, d)
    BY <1>2, Zenon DEF System
  <2> QED
    BY <2>1, SMTT(30), Z3T(30) DEF OtherOpens, OtherCloses, SearchTypeOK, searchVars
<1> QED
  BY <1>1, <1>2, Zenon

\* The types of the search hold always.
LEMMA SearchTypes == Spec => []SearchTypeOK
<1>1. Init => SearchTypeOK
  BY Names, SMTT(30), Z3T(30) DEF Init, SearchTypeOK
<1>2. SearchTypeOK /\ [Next]_vars => SearchTypeOK'
  <2> SUFFICES ASSUME SearchTypeOK, [Next]_vars PROVE SearchTypeOK'
    BY Zenon
  <2>1. CASE UNCHANGED vars
    BY <2>1, Zenon DEF vars, searchVars, SearchTypeOK
  <2> QED
    BY <2>1, CallTypes, ApplicationTypes, SystemTypes, Zenon DEF Next
<1> QED
  BY <1>1, <1>2, PTL DEF Spec

-------------------------------------------------------------------------------
(* The search.  The devices listed are tried from the first on, each refused *)
(* one before those that are left, and a context is held only for the device *)
(* whose turn it is.                                                         *)

Holds(t, d) == t \in inuse[d]

SearchShape(t) ==
  /\ left[t] \subseteq found[t] /\ refused[t] = found[t] \ left[t]
  /\ \A d \in found[t] \ left[t], e \in left[t] : d < e
  /\ request[t] # NoRequest => \A d \in found[t] : Matches(request[t], d)
  /\ pc[t] # "returned" => afu[t] = OCXL_INVALID_AFU
  /\ pc[t] \in Calling => ret[t] # "OCXL_OK"
  /\ pc[t] = "returned" =>
       /\ ret[t] = "OCXL_OK" <=> afu[t] # OCXL_INVALID_AFU
       /\ ret[t] = "OCXL_OK" => Current(t, afu[t])
       /\ ret[t] = "OCXL_NO_MORE_CONTEXTS" => left[t] = {} /\ found[t] # {}
  /\ \A d \in Devs : Holds(t, d) <=> \/ pc[t] = "returned" /\ afu[t] = d
                                     \/ pc[t] = "finish" /\ Current(t, d)

SearchShapes == \A t \in Threads : SearchShape(t)

\* A step of the thread t leaves the calls of every other one alone.
OnlyItsCall(t) ==
  \A u \in Threads : u # t =>
    /\ pc'[u] = pc[u] /\ request'[u] = request[u] /\ found'[u] = found[u] /\ left'[u] = left[u]
    /\ ret'[u] = ret[u] /\ afu'[u] = afu[u] /\ refused'[u] = refused[u]
    /\ \A d \in Devs : Holds(u, d)' <=> Holds(u, d)

\* A step of one call keeps the shapes of the others.
LEMMA OtherCalls ==
  ASSUME SearchShapes, NEW t \in Threads, OnlyItsCall(t), SearchShape(t)'
  PROVE  SearchShapes'
<1> SUFFICES ASSUME NEW u \in Threads, u # t PROVE SearchShape(u)'
  BY Zenon DEF SearchShapes
<1>1. SearchShape(u)
  BY Zenon DEF SearchShapes
<1>2. /\ pc'[u] = pc[u] /\ request'[u] = request[u] /\ found'[u] = found[u] /\ left'[u] = left[u]
      /\ ret'[u] = ret[u] /\ afu'[u] = afu[u] /\ refused'[u] = refused[u]
      /\ \A d \in Devs : Holds(u, d)' <=> Holds(u, d)
  BY Zenon DEF OnlyItsCall
<1>3. \A d : Current(u, d)' <=> Current(u, d)
  BY <1>2, Zenon DEF Current
<1> QED
  BY <1>1, <1>2, <1>3, ZenonT(60) DEF SearchShape

\* It is the turn of one device at a time.
LEMMA OneTurn ==
  ASSUME SearchTypeOK, NEW t \in Threads, NEW d \in Devs, NEW e \in Devs, Current(t, d), Current(t, e)
  PROVE  d = e
  BY Numbers, SMTT(30), Z3T(30) DEF Current

\* Steps that move a call on, or change nothing of the search.
LEMMA GoesOnSearch ==
  ASSUME SearchTypeOK, SearchShapes, NEW t \in Threads,
         CallsInit(t) \/ HasPath(t) \/ \E d \in Devs : GetAfuByPath(t, d)
  PROVE  SearchShapes'
<1>1. PICK l \in Calling \ {"finish"} : pc' = [pc EXCEPT ![t] = l]
  BY GoesOn, Zenon
<1>2. UNCHANGED <<inuse, searchVars>> /\ pc[t] \in Calling \ {"finish"}
  BY GoesOn, Zenon
<1>3. OnlyItsCall(t)
  BY <1>1, <1>2, Zenon DEF OnlyItsCall, Holds, searchVars, SearchTypeOK
<1>4. SearchShape(t) /\ pc'[t] = l /\ l # "returned" /\ pc[t] # "returned"
  BY <1>1, <1>2, Names, Zenon DEF SearchShapes, SearchTypeOK
<1>5. \A d : (Current(t, d)' <=> Current(t, d)) /\ (Holds(t, d)' <=> Holds(t, d))
  BY <1>2, Zenon DEF Current, Holds, searchVars
<1>6. SearchShape(t)'
  BY <1>1, <1>2, <1>4, <1>5, ZenonT(60) DEF SearchShape, searchVars
<1> QED
  BY <1>3, <1>6, OtherCalls, Zenon

\* The begin of an open call preserves the shapes of the search.
LEMMA BeginSearch ==
  ASSUME SearchTypeOK, SearchShapes, NEW t \in Threads, NEW r \in Requests \cup {NoRequest},
         NEW D \in SUBSET Devs, r # NoRequest => D = {}, Begin(t, r, D)
  PROVE  SearchShapes'
<1>1. /\ pc[t] = "idle" /\ pc'[t] = "init" /\ request'[t] = r /\ found'[t] = D /\ left'[t] = D
      /\ ret'[t] = "OCXL_INTERNAL_ERROR" /\ afu'[t] = OCXL_INVALID_AFU /\ refused'[t] = {}
      /\ inuse' = inuse
  BY Zenon DEF Begin, Goto, SearchTypeOK
<1>2. OnlyItsCall(t)
  BY Zenon DEF OnlyItsCall, Begin, Goto, Holds, SearchTypeOK
<1>3. \A d \in Devs : ~Holds(t, d)'
  BY <1>1, SMTT(30), Z3T(30) DEF SearchShapes, SearchShape, Holds
<1>4. SearchShape(t)'
  BY <1>1, <1>3, SMTT(30), Z3T(30) DEF SearchShape
<1> QED
  BY <1>2, <1>4, OtherCalls, Zenon

\* glob() preserves the shapes of the search.
LEMMA GlobSearch ==
  ASSUME SearchTypeOK, SearchShapes, NEW t \in Threads, Glob(t)
  PROVE  SearchShapes'
<1>0. PICK S \in SUBSET {d \in Devs : Matches(request[t], d)} :
         found' = [found EXCEPT ![t] = S] /\ left' = [left EXCEPT ![t] = S]
  BY Zenon DEF Glob
<1>1. /\ pc[t] = "inited" /\ pc'[t] = "init" /\ found[t] = {} /\ found'[t] = S /\ left'[t] = S
      /\ UNCHANGED <<inuse, request, ret, afu, refused>>
  BY <1>0, Zenon DEF Glob, ToList, Goto, SearchTypeOK
<1>2. OnlyItsCall(t)
  BY <1>0, Zenon DEF OnlyItsCall, Glob, Goto, Holds, SearchTypeOK
<1>3. SearchShape(t)
  BY Zenon DEF SearchShapes
<1>4. /\ refused[t] = {} /\ afu[t] = OCXL_INVALID_AFU /\ ret[t] # "OCXL_OK"
      /\ \A d \in Devs : ~Holds(t, d)'
  BY <1>1, <1>3, SMTT(30), Z3T(30) DEF SearchShape, Holds, Calling
<1>5. \A d \in S : Matches(request[t], d)
  BY Zenon
<1>6. \A d \in S : Matches(request[t], d)'
  BY <1>1, <1>5, Zenon DEF Matches
<1>7. SearchShape(t)'
  BY <1>1, <1>4, <1>6, SMTT(30), Z3T(30) DEF SearchShape
<1> QED
  BY <1>2, <1>7, OtherCalls, Zenon

\* A failure preserves the shapes of the search.
LEMMA FailsSearch ==
  ASSUME SearchTypeOK, SearchShapes, NEW t \in Threads, Fails(t)
  PROVE  SearchShapes'
<1>0. PICK rc \in Errors \ {"OCXL_NO_MORE_CONTEXTS"} : Fail(t, rc)
  BY FailsWith, Zenon
<1>1. /\ pc[t] \in Calling \ {"finish"} /\ UNCHANGED <<inuse, request, found, left, refused>>
      /\ pc'[t] = "returned" /\ ret'[t] = rc /\ afu'[t] = OCXL_INVALID_AFU
  BY <1>0, FailsWith, Zenon DEF Fail, Goto, SearchTypeOK
<1>2. OnlyItsCall(t)
  BY <1>0, <1>1, Zenon DEF OnlyItsCall, Fail, Goto, Holds, SearchTypeOK
<1>3. SearchShape(t) /\ pc[t] # "returned" /\ rc # "OCXL_OK"
  BY <1>1, Names, Zenon DEF SearchShapes
<1>4. \A d \in Devs : ~Holds(t, d)' /\ d # OCXL_INVALID_AFU
  BY <1>1, <1>3, Numbers, Zenon DEF SearchShape, Holds
<1>5. \A d : Matches(request[t], d)' <=> Matches(request[t], d)
  BY <1>1, Zenon DEF Matches
<1>6. SearchShape(t)'
  BY <1>1, <1>3, <1>4, <1>5, Names, ZenonT(60) DEF SearchShape
<1> QED
  BY <1>2, <1>6, OtherCalls, Zenon

\* The open() of a device preserves the shapes of the search.
LEMMA OpenDeviceSearch ==
  ASSUME SearchTypeOK, SearchShapes, NEW t \in Threads, NEW d \in Devs, OpenDevice(t, d)
  PROVE  SearchShapes'
<1>1. /\ pc[t] = "open" /\ pc'[t] = "finish" /\ Current(t, d) /\ UNCHANGED searchVars
      /\ inuse' = [inuse EXCEPT ![d] = @ \cup {t}]
  BY Zenon DEF OpenDevice, Goto, SearchTypeOK
<1>2. \A u \in Threads, e \in Devs : Holds(u, e)' <=> Holds(u, e) \/ (u = t /\ e = d)
  BY <1>1, SMTT(30), Z3T(30) DEF Holds, SearchTypeOK
<1>3. OnlyItsCall(t)
  BY <1>1, <1>2, Zenon DEF OnlyItsCall, OpenDevice, Goto, searchVars, SearchTypeOK
<1>4. SearchShape(t)
  BY Zenon DEF SearchShapes
<1>5. \A e \in Devs : Current(t, e)' <=> e = d
  BY <1>1, OneTurn, Zenon DEF Current, searchVars
<1>6. \A e \in Devs : ~Holds(t, e)
  BY <1>1, <1>4, SMTT(30), Z3T(30) DEF SearchShape
<1>7. SearchShape(t)'
  BY <1>1, <1>2, <1>4, <1>5, <1>6, SMTT(30), Z3T(30) DEF SearchShape, searchVars, Calling
<1> QED
  BY <1>3, <1>7, OtherCalls, Zenon

\* Passing over a full device preserves the shapes of the search.
LEMMA NoMoreContextsSearch ==
  ASSUME SearchTypeOK, SearchShapes, NEW t \in Threads, NEW d \in Devs, NoMoreContexts(t, d)
  PROVE  SearchShapes'
<1>1. /\ pc[t] = "open" /\ Current(t, d) /\ UNCHANGED <<inuse, request, found, afu>>
      /\ refused'[t] = refused[t] \cup {d} /\ left'[t] = left[t] \ {d}
      /\ ret'[t] = "OCXL_NO_MORE_CONTEXTS"
      /\ pc'[t] = IF left[t] = {d} THEN "returned" ELSE "init"
  BY Zenon DEF NoMoreContexts, Goto, SearchTypeOK
<1>2. OnlyItsCall(t)
  BY Zenon DEF OnlyItsCall, NoMoreContexts, Goto, Holds, SearchTypeOK
<1>3. SearchShape(t)
  BY Zenon DEF SearchShapes
<1>4. d \in left[t] /\ \A e \in left[t] \ {d} : d < e
  BY <1>1, Numbers, SMTT(30), Z3T(30) DEF Current, SearchTypeOK
<1>5. /\ left'[t] \subseteq found'[t] /\ refused'[t] = found'[t] \ left'[t]
      /\ \A c \in found'[t] \ left'[t], e \in left'[t] : c < e
  BY <1>1, <1>3, <1>4, SMTT(30), Z3T(30) DEF SearchShape
<1>6. /\ request'[t] # NoRequest => \A e \in found'[t] : Matches(request[t], e)'
      /\ afu'[t] = OCXL_INVALID_AFU /\ \A e \in Devs : ~Holds(t, e)' /\ e # OCXL_INVALID_AFU
  BY <1>1, <1>3, Numbers, SMTT(30), Z3T(30) DEF SearchShape, Matches, Holds
<1>7. pc'[t] = "returned" => left'[t] = {} /\ found'[t] # {}
  BY <1>1, <1>3, <1>4, SMTT(30), Z3T(30) DEF SearchShape
<1>8. SearchShape(t)'
  BY <1>1, <1>5, <1>6, <1>7, SMTT(30), Z3T(30) DEF SearchShape
<1> QED
  BY <1>2, <1>8, OtherCalls, Zenon

\* What follows the open() preserves the shapes of the search.
LEMMA FinishSearch ==
  ASSUME SearchTypeOK, SearchShapes, NEW t \in Threads, NEW d \in Devs, FinishOpen(t, d) \/ FinishFails(t, d)
  PROVE  SearchShapes'
<1>0. SearchShape(t) /\ pc[t] = "finish" /\ Current(t, d) /\ UNCHANGED <<request, found, left, refused>>
      /\ pc' = [pc EXCEPT ![t] = "returned"]
  BY Zenon DEF SearchShapes, FinishOpen, FinishFails, Fail, Goto
<1>1. \A e \in Devs : Holds(t, e) <=> e = d
  BY <1>0, OneTurn, SMTT(30), Z3T(30) DEF SearchShape
<1>2. \A e : (Current(t, e)' <=> Current(t, e)) /\ (Matches(request[t], e)' <=> Matches(request[t], e))
  BY <1>0, Zenon DEF Current, Matches
<1>3. pc'[t] = "returned" /\ d # OCXL_INVALID_AFU
  BY <1>0, Numbers, Zenon DEF SearchTypeOK
<1>4. CASE FinishOpen(t, d)
  <2>1. ret'[t] = "OCXL_OK" /\ afu'[t] = d /\ inuse' = inuse
    BY <1>4, Zenon DEF FinishOpen, SearchTypeOK
  <2>2. OnlyItsCall(t)
    BY <1>0, <1>4, Zenon DEF OnlyItsCall, FinishOpen, Goto, Holds, SearchTypeOK
  <2>3. \A e \in Devs : Holds(t, e)' <=> e = d
    BY <1>1, <2>1, Zenon DEF Holds
  <2>4. SearchShape(t)'
    BY <1>0, <1>2, <1>3, <2>1, <2>3, Names, SMTT(30), Z3T(30) DEF SearchShape
  <2> QED
    BY <2>2, <2>4, OtherCalls, Zenon
<1>5. CASE FinishFails(t, d)
  <2>1. ret'[t] = "OCXL_NO_DEV" /\ afu'[t] = OCXL_INVALID_AFU /\ inuse' = [inuse EXCEPT ![d] = @ \ {t}]
    BY <1>5, Zenon DEF FinishFails, Fail, SearchTypeOK
  <2>2. \A u \in Threads, e \in Devs : Holds(u, e)' <=> Holds(u, e) /\ ~(u = t /\ e = d)
    BY <2>1, SMTT(30), Z3T(30) DEF Holds, SearchTypeOK
  <2>3. OnlyItsCall(t)
    BY <1>0, <1>5, <2>2, Zenon DEF OnlyItsCall, FinishFails, Fail, Goto, SearchTypeOK
  <2>4. \A e \in Devs : ~Holds(t, e)' /\ e # OCXL_INVALID_AFU
    BY <1>1, <2>2, Numbers, Zenon
  <2>5. SearchShape(t)'
    BY <1>0, <1>2, <1>3, <2>1, <2>4, Names, SMTT(30), Z3T(30) DEF SearchShape
  <2> QED
    BY <2>3, <2>5, OtherCalls, Zenon
<1> QED
  BY <1>4, <1>5, Zenon

\* Closing a handle preserves the shapes of the search.
LEMMA IdleSearch ==
  ASSUME SearchTypeOK, SearchShapes, NEW t \in Threads, ocxl_afu_close(t) \/ GivesUp(t)
  PROVE  SearchShapes'
<1>0. /\ pc[t] = "returned" /\ pc'[t] = "idle" /\ found'[t] = {} /\ left'[t] = {} /\ refused'[t] = {}
      /\ request'[t] = NoRequest /\ afu'[t] = OCXL_INVALID_AFU
  BY ZenonT(60) DEF ocxl_afu_close, IsOpen, GivesUp, Idle, Goto, SearchTypeOK
<1>1. SearchShape(t)
  BY Zenon DEF SearchShapes
<1>2. \A e \in Devs : Holds(t, e) <=> afu[t] = e
  BY <1>0, <1>1, SMTT(30), Z3T(30) DEF SearchShape
<1>3. \A u \in Threads, e \in Devs : Holds(u, e)' <=> Holds(u, e) /\ u # t
  <2>1. CASE ocxl_afu_close(t)
    <3>1. inuse' = [inuse EXCEPT ![afu[t]] = @ \ {t}]
      BY <2>1, Zenon DEF ocxl_afu_close
    <3>2. \A u \in Threads, e \in Devs : Holds(u, e)' <=> Holds(u, e) /\ ~(u = t /\ e = afu[t])
      BY <3>1, SMTT(30), Z3T(30) DEF Holds, SearchTypeOK
    <3> QED
      BY <1>2, <3>2, Zenon
  <2>2. CASE GivesUp(t)
    <3>1. inuse' = inuse /\ \A e \in Devs : ~Holds(t, e)
      BY <1>2, <2>2, Numbers, Zenon DEF GivesUp
    <3> QED
      BY <3>1, Zenon DEF Holds
  <2> QED
    BY <2>1, <2>2, Zenon
<1>4. OnlyItsCall(t)
  BY <1>3, ZenonT(60) DEF OnlyItsCall, ocxl_afu_close, GivesUp, Idle, Goto, SearchTypeOK
<1>5. SearchShape(t)'
  BY <1>0, <1>3, Names, SMTT(30), Z3T(30) DEF SearchShape
<1> QED
  BY <1>4, <1>5, OtherCalls, Zenon

\* The steps of the application and of other processes that no call notices.
LEMMA OutsideSearch ==
  ASSUME SearchTypeOK, SearchShapes, System \/ ProcessWide \/ \E t \in Threads : SetsMessages(t)
  PROVE  SearchShapes'
<1>1. UNCHANGED <<pc, searchVars>>
  BY Zenon DEF System, OtherOpens, OtherCloses, ProcessWide, EnableErrors, EnableTracing, SetsMessages,
     ocxl_afu_enable_messages
<1>2. \A u \in Threads, e \in Devs : Holds(u, e)' <=> Holds(u, e)
  <2>1. CASE System
    <3>1. PICK d \in Devs, o \in Others : OtherOpens(o, d) \/ OtherCloses(o, d)
      BY <2>1, Zenon DEF System
    <3>2. \A u \in Threads : u # o
      BY DevsAssumption, SMTT(30), Z3T(30)
    <3> QED
      BY <3>1, <3>2, SMTT(30), Z3T(30) DEF OtherOpens, OtherCloses, Holds, SearchTypeOK
  <2>2. CASE ProcessWide \/ \E t \in Threads : SetsMessages(t)
    BY <2>2, Zenon DEF ProcessWide, SetsMessages, Holds
  <2> QED
    BY <2>1, <2>2, Zenon
<1> SUFFICES ASSUME NEW u \in Threads PROVE SearchShape(u)'
  BY Zenon DEF SearchShapes
<1>3. SearchShape(u)
  BY Zenon DEF SearchShapes
<1>4. \A d : Current(u, d)' <=> Current(u, d)
  BY <1>1, Zenon DEF Current, searchVars
<1> QED
  BY <1>1, <1>2, <1>3, <1>4, ZenonT(60) DEF SearchShape, searchVars, Matches

\* The shapes of the search hold always.
LEMMA SearchInvariant == Spec => []SearchShapes
<1>1. Init => SearchShapes
  BY Numbers, Names, ZenonT(60) DEF Init, SearchShapes, SearchShape, Holds
<1>2. SearchTypeOK /\ SearchShapes /\ [Next]_vars => SearchShapes'
  <2> SUFFICES ASSUME SearchTypeOK, SearchShapes, [Next]_vars PROVE SearchShapes'
    BY Zenon
  <2>1. CASE UNCHANGED vars
    <3>1. \A u, d : (Current(u, d)' <=> Current(u, d)) /\ (Holds(u, d)' <=> Holds(u, d))
      BY <2>1, Zenon DEF vars, searchVars, Current, Holds
    <3> QED
      BY <2>1, <3>1, ZenonT(60) DEF vars, searchVars, SearchShapes, SearchShape, Matches
  <2>2. ASSUME NEW t \in Threads, CallStep(t) PROVE SearchShapes'
    BY <2>2, GoesOnSearch, GlobSearch, FailsSearch, OpenDeviceSearch, NoMoreContextsSearch, FinishSearch,
       Zenon DEF CallStep, DeviceStep, Fails
  <2>3. ASSUME NEW t \in Threads, Application(t) PROVE SearchShapes'
    <3>1. CASE ocxl_afu_open_specific(t)
      <4>1. PICK r \in Requests : Begin(t, r, {})
        BY <3>1, Zenon DEF ocxl_afu_open_specific
      <4> QED
        BY <4>1, BeginSearch, SMTT(30), Z3T(30)
    <3>2. CASE ocxl_afu_open_from_dev(t)
      <4>1. PICK d \in Devs : Begin(t, NoRequest, {d})
        BY <3>2, Zenon DEF ocxl_afu_open_from_dev
      <4> QED
        BY <4>1, BeginSearch, SMTT(30), Z3T(30)
    <3> QED
      BY <2>3, <3>1, <3>2, IdleSearch, OutsideSearch, Zenon DEF Application
  <2> QED
    BY <2>1, <2>2, <2>3, OutsideSearch, Zenon DEF Next
<1> QED
  BY <1>1, <1>2, SearchTypes, PTL DEF Spec

\* No open call takes a context that it does not hand out or give back, however
\* the calls of the threads and the other processes interleave.
THEOREM ContextsAccounted == Spec => []ContextsAreAccounted
<1>1. SearchTypeOK /\ SearchShapes => ContextsAreAccounted
  <2> SUFFICES ASSUME SearchTypeOK, SearchShapes, NEW t \in Threads, NEW d \in Devs
               PROVE  t \in inuse[d] <=> (IsOpen(t) /\ afu[t] = d) \/ (pc[t] = "finish" /\ Current(t, d))
    BY Zenon DEF ContextsAreAccounted
  <2>1. SearchShape(t) /\ d # OCXL_INVALID_AFU
    BY Numbers, Zenon DEF SearchShapes
  <2> QED
    BY <2>1, SMTT(30), Z3T(30) DEF SearchShape, Holds, IsOpen
<1> QED
  BY <1>1, SearchTypes, SearchInvariant, PTL

\* ocxl_afu_open_specific() gives the first of the devices it lists that has a
\* context left, and says that there is none only if each had none.
THEOREM SearchFindsFirst == Spec => []FirstWithContexts
<1>1. SearchTypeOK /\ SearchShapes => FirstWithContexts
  <2> SUFFICES ASSUME SearchTypeOK, SearchShapes, NEW t \in Threads, pc[t] = "returned", request[t] # NoRequest
               PROVE  /\ ret[t] = "OCXL_OK" <=> afu[t] # OCXL_INVALID_AFU
                      /\ ret[t] = "OCXL_OK" => /\ Matches(request[t], afu[t])
                                               /\ refused[t] = {d \in found[t] : d < afu[t]}
                      /\ ret[t] = "OCXL_NO_MORE_CONTEXTS" => refused[t] = found[t] /\ found[t] # {}
    BY Zenon DEF FirstWithContexts
  <2>1. SearchShape(t) /\ found[t] \subseteq Nat
    BY Numbers, ZenonT(60) DEF SearchShapes, SearchTypeOK
  <2>2. ret[t] = "OCXL_OK" => refused[t] = {d \in found[t] : d < afu[t]}
    <3> SUFFICES ASSUME ret[t] = "OCXL_OK" PROVE refused[t] = {d \in found[t] : d < afu[t]}
      OBVIOUS
    <3>1. afu[t] \in left[t] /\ \A e \in left[t] : afu[t] <= e
      BY <2>1, SMTT(30), Z3T(30) DEF SearchShape, Current
    <3> QED
      BY <2>1, <3>1, SMTT(30), Z3T(30) DEF SearchShape
  <2> QED
    BY <2>1, <2>2, SMTT(30), Z3T(30) DEF SearchShape, Current
<1> QED
  BY <1>1, SearchTypes, SearchInvariant, PTL

-------------------------------------------------------------------------------
(* Initialisation and messages.  One thread at a time is between the lock    *)
(* and the unlock of libocxl_init(), none once libocxl_inited is set, and    *)
(* from then on the process-wide flags are what the environment says.        *)

Initing  == {"trace_all", "errors_all", "sys_path"}
Inited   == {"inited", "path", "open", "finish", "returned"}

InitOnce ==
  /\ \A t \in Threads : pc[t] \in Initing => libocxl_inited_mutex = t /\ ~libocxl_inited
  /\ \A t \in Threads : pc[t] \in Inited => libocxl_inited
  /\ \A t \in Threads : pc[t] \in {"errors_all", "sys_path"} => tracing_all = env.trace_all
  /\ \A t \in Threads : pc[t] = "sys_path" => verbose_errors_all = env.verbose_errors_all
  /\ libocxl_inited => /\ tracing_all = env.trace_all
                       /\ verbose_errors_all = env.verbose_errors_all
                       /\ sys_path = env.syspath
  /\ (tracing_all => env.trace_all) /\ (verbose_errors_all => env.verbose_errors_all)
  /\ (sys_path => env.syspath)

\* The environment says yes or no to each switch.
LEMMA EnvTypes ==
  ASSUME env \in Environments
  PROVE  env.trace_all \in BOOLEAN /\ env.verbose_errors_all \in BOOLEAN /\ env.syspath \in BOOLEAN
  BY MessagesAssumption, SMTT(30), Z3T(30)

\* The steps of libocxl_init() keep the types of the messages.
LEMMA InitTypes ==
  ASSUME MessagesTypeOK, NEW t \in Threads, libocxl_init(t)
  PROVE  MessagesTypeOK'
<1> USE EnvTypes DEF MessagesTypeOK, enableVars, memberVars, reportVars, initVars, flagVars
<1>1. CASE AlreadyInited(t) \/ InitDone(t)
  BY <1>1, ZenonT(30) DEF AlreadyInited, InitDone
<1>2. CASE InitLock(t) \/ InitTraceAll(t) \/ InitErrorsAll(t)
  BY <1>2, ZenonT(30) DEF InitLock, InitTraceAll, InitErrorsAll
<1> QED
  BY <1>1, <1>2, Zenon DEF libocxl_init

\* ocxl_enable_messages() keeps the types of the messages.
LEMMA EnableTypes ==
  ASSUME MessagesTypeOK, (\E sources \in Asked : EnableErrors(sources)) \/ EnableTracing
  PROVE  MessagesTypeOK'
<1> USE DEF enableVars, memberVars, reportVars, initVars, flagVars
<1>1. ASSUME NEW sources \in Asked, EnableErrors(sources) PROVE MessagesTypeOK'
  <2>1. sources \in Sources
    BY MessagesAssumption, SMTT(30), Z3T(30)
  <2>2. enables' \in 0 .. MaxEnables
    BY <1>1, MessagesAssumption, SMTT(30), Z3T(30) DEF EnableErrors, MessagesTypeOK
  <2> QED
    BY <1>1, <2>1, <2>2, SMTT(30), Z3T(30) DEF EnableErrors, MessagesTypeOK
<1>2. CASE EnableTracing
  BY <1>2, SMTT(30), Z3T(30) DEF EnableTracing, MessagesTypeOK
<1> QED
  BY <1>1, <1>2, Zenon

\* The other steps: the flags are read, never written.
Reads == UNCHANGED <<initVars, enableVars>>

\* So do the steps on a handle's members and what is said.
LEMMA OtherTypes ==
  ASSUME MessagesTypeOK, Reads,
         \/ UNCHANGED <<memberVars, reportVars>>
         \/ \E t \in Threads : afu_init(t) /\ UNCHANGED reportVars
         \/ \E t \in Threads, rc \in Errors : errmsg(t, rc) /\ UNCHANGED <<memberVars, quiet>>
         \/ \E t \in Threads : Forget(t)
         \/ \E t \in Threads, sources \in Asked : ocxl_afu_enable_messages(t, sources)
  PROVE  MessagesTypeOK'
<1> USE DEF enableVars, memberVars, reportVars, initVars, flagVars, Reads, MessagesTypeOK
<1>1. CASE UNCHANGED <<memberVars, reportVars>>
  BY <1>1, Zenon
<1>2. CASE \E t \in Threads : afu_init(t) /\ UNCHANGED reportVars
  BY <1>2, ZenonT(30) DEF afu_init
<1>3. CASE \E t \in Threads, rc \in Errors : errmsg(t, rc) /\ UNCHANGED <<memberVars, quiet>>
  BY <1>3, Names, ZenonT(30) DEF errmsg
<1>4. CASE \E t \in Threads : Forget(t)
  BY <1>4, Names, SMTT(30), Z3T(30) DEF Forget, Silence
<1>5. ASSUME NEW t \in Threads, NEW sources \in Asked, ocxl_afu_enable_messages(t, sources)
      PROVE  MessagesTypeOK'
  <2>1. sources \in Sources
    BY MessagesAssumption, SMTT(30), Z3T(30)
  <2> QED
    BY <1>5, <2>1, SMTT(30), Z3T(30) DEF ocxl_afu_enable_messages
<1> QED
  BY <1>1, <1>2, <1>3, <1>4, <1>5, Zenon

\* Every step initialises, sets the messages, or is one of those.
MessagesStep ==
  \/ \E t \in Threads : libocxl_init(t) /\ UNCHANGED <<inuse, searchVars>>
  \/ ProcessWide
  \/ /\ Reads
     /\ \/ UNCHANGED <<memberVars, reportVars>>
        \/ \E t \in Threads : afu_init(t) /\ UNCHANGED reportVars
        \/ \E t \in Threads, rc \in Errors : errmsg(t, rc) /\ UNCHANGED <<memberVars, quiet>>
        \/ \E t \in Threads : Forget(t)
        \/ \E t \in Threads, sources \in Asked : ocxl_afu_enable_messages(t, sources)

\* Every step of the search is one of the steps of Messages.
LEMMA StepsOfMessages ==
  ASSUME [Next]_vars
  PROVE  MessagesStep
<1> USE DEF Reads, messageVars, MessagesStep
<1>1. CASE UNCHANGED vars \/ System
  BY <1>1, Zenon DEF vars, System, OtherOpens, OtherCloses
<1>2. ASSUME NEW t \in Threads, CallStep(t) PROVE MessagesStep
  <2>1. CASE CallsInit(t)
    BY <2>1, Zenon DEF CallsInit
  <2>2. CASE Glob(t) \/ HasPath(t)
    BY <2>2, Zenon DEF Glob, HasPath
  <2>3. CASE Fails(t) \/ \E d \in Devs : FinishFails(t, d)
    <3>1. /\ UNCHANGED <<initVars, enableVars, memberVars, quiet>>
          /\ errmsg(t, "OCXL_NO_DEV") \/ errmsg(t, "OCXL_NO_MEM") \/ errmsg(t, "OCXL_INTERNAL_ERROR")
      BY <2>3, Zenon DEF Fails, GlobFails, GetAfuByPathFails, OpenDeviceFails, FinishFails, Fail
    <3> QED
      BY <3>1, Names, Zenon
  <2>4. ASSUME NEW d \in Devs, NoMoreContexts(t, d) PROVE MessagesStep
    BY <2>4, Names, Zenon DEF NoMoreContexts
  <2>5. ASSUME NEW d \in Devs, GetAfuByPath(t, d) \/ OpenDevice(t, d) \/ FinishOpen(t, d)
        PROVE  MessagesStep
    BY <2>5, Zenon DEF GetAfuByPath, OpenDevice, FinishOpen
  <2> QED
    BY <1>2, <2>1, <2>2, <2>3, <2>4, <2>5, Zenon DEF CallStep, DeviceStep, Fails
<1>3. ASSUME NEW t \in Threads, Application(t) PROVE MessagesStep
  <2>1. CASE ocxl_afu_open_specific(t) \/ ocxl_afu_open_from_dev(t)
    BY <2>1, Zenon DEF ocxl_afu_open_specific, ocxl_afu_open_from_dev, Begin
  <2>2. CASE ocxl_afu_close(t) \/ GivesUp(t)
    BY <2>2, Zenon DEF ocxl_afu_close, GivesUp, Idle
  <2>3. CASE SetsMessages(t)
    <3>1. PICK sources \in Asked : ocxl_afu_enable_messages(t, sources)
      BY <2>3, Zenon DEF SetsMessages
    <3>2. UNCHANGED <<initVars, enableVars>>
      BY <3>1, Zenon DEF ocxl_afu_enable_messages
    <3> QED
      BY <3>1, <3>2, Zenon
  <2> QED
    BY <1>3, <2>1, <2>2, <2>3, Zenon DEF Application
<1> QED
  BY <1>1, <1>2, <1>3, Zenon DEF Next

\* The open calls keep to their types: a result is one of the codes of
\* ocxl_err, a handle stands for one of the devices, a context is held by a
\* thread of the process or by another process.
THEOREM SearchTypesHold == Spec => []TypeOK
<1>1. Init => MessagesTypeOK
  <2> SUFFICES ASSUME MessagesInit PROVE MessagesTypeOK
    BY Zenon DEF Init
  <2>1. enables \in 0 .. MaxEnables /\ "OCXL_OK" \in Results
    BY MessagesAssumption, Names, SMTT(30), Z3T(30) DEF MessagesInit
  <2>2. /\ afu_verbose_errors \in [Threads -> BOOLEAN] /\ afu_tracing \in [Threads -> BOOLEAN]
        /\ afu_sysfs_path \in [Threads -> BOOLEAN] /\ quiet \in [Threads -> BOOLEAN]
    BY SMTT(30), Z3T(30) DEF MessagesInit
  <2>3. told \in [Threads -> Sources \cup {NoCall}] /\ said \in [Threads -> Results]
    BY <2>1, SMTT(30), Z3T(30) DEF MessagesInit, Silence
  <2>4. env \in Environments /\ libocxl_inited_mutex \in Threads \cup {NoThread}
        /\ enabling \in Sources \cup {NoCall} /\ asked \in Sources \cup {NoCall}
    BY Zenon DEF MessagesInit
  <2>5. /\ libocxl_inited \in BOOLEAN /\ verbose_errors \in BOOLEAN /\ verbose_errors_all \in BOOLEAN
        /\ tracing \in BOOLEAN /\ tracing_all \in BOOLEAN /\ sys_path \in BOOLEAN
    BY Zenon DEF MessagesInit
  <2> QED
    BY <2>1, <2>2, <2>3, <2>4, <2>5, Zenon DEF MessagesTypeOK
<1>2. MessagesTypeOK /\ [Next]_vars => MessagesTypeOK'
  <2> SUFFICES ASSUME MessagesTypeOK, [Next]_vars PROVE MessagesTypeOK'
    BY Zenon
  <2> QED
    BY StepsOfMessages, InitTypes, EnableTypes, OtherTypes, Zenon DEF ProcessWide, MessagesStep
<1>3. SearchTypeOK /\ MessagesTypeOK => TypeOK
  BY Zenon DEF SearchTypeOK, TypeOK
<1> QED
  BY <1>1, <1>2, <1>3, SearchTypes, PTL DEF Spec

-------------------------------------------------------------------------------
(* libocxl_init().                                                           *)

InitKept == UNCHANGED <<env, libocxl_inited, libocxl_inited_mutex, verbose_errors_all, tracing_all, sys_path>>

\* Outside libocxl_init() a call passes the initialisation only if it has done so before.
InitMove ==
  \/ \E t \in Threads : CallsInit(t)
  \/ /\ InitKept
     /\ \/ pc' = pc
        \/ \E t \in Threads, l \in Inited \cup {"init", "idle"} :
             pc' = [pc EXCEPT ![t] = l] /\ (l \in Inited => pc[t] \in Inited)

\* A step outside libocxl_init() leaves its state alone.
LEMMA MovesOutsideInit ==
  ASSUME [Next]_vars
  PROVE  InitMove
<1> USE DEF InitKept, InitMove, messageVars, initVars, flagVars
<1>1. CASE UNCHANGED vars \/ System \/ ProcessWide
  BY <1>1, Zenon DEF vars, System, OtherOpens, OtherCloses, ProcessWide, EnableErrors, EnableTracing
<1>2. ASSUME NEW t \in Threads, CallStep(t) PROVE InitMove
  <2>1. CASE Glob(t) \/ HasPath(t) \/ Fails(t)
    <3>1. InitKept /\ pc[t] \in Inited /\ \E l \in Inited \cup {"init"} : pc' = [pc EXCEPT ![t] = l]
      BY <2>1, ZenonT(60) DEF Fails, Glob, ToList, HasPath, GlobFails, GetAfuByPathFails, OpenDeviceFails, Fail, Goto, Inited
    <3> QED
      BY <3>1, ZenonT(60)
  <2>2. ASSUME NEW d \in Devs, GetAfuByPath(t, d) \/ OpenDevice(t, d) \/ NoMoreContexts(t, d)
                               \/ FinishOpen(t, d) \/ FinishFails(t, d)
        PROVE  InitMove
    <3>1. InitKept /\ pc[t] \in Inited /\ \E l \in Inited \cup {"init"} : pc' = [pc EXCEPT ![t] = l]
      BY <2>2, SMTT(30), Z3T(30) DEF GetAfuByPath, OpenDevice, NoMoreContexts, FinishOpen, FinishFails, Fail, Goto, Inited
    <3> QED
      BY <3>1, Zenon
  <2> QED
    BY <1>2, <2>1, <2>2, Zenon DEF CallStep, DeviceStep, Fails
<1>3. ASSUME NEW t \in Threads, Application(t) PROVE InitMove
  <2>1. CASE SetsMessages(t)
    BY <2>1, Zenon DEF SetsMessages, ocxl_afu_enable_messages
  <2>2. CASE \/ ocxl_afu_open_specific(t) \/ ocxl_afu_open_from_dev(t)
             \/ ocxl_afu_close(t) \/ GivesUp(t)
    <3>1. InitKept /\ \E l \in {"init", "idle"} : pc' = [pc EXCEPT ![t] = l]
      BY <2>2, Zenon DEF ocxl_afu_open_specific, ocxl_afu_open_from_dev, Begin, ocxl_afu_close, GivesUp, Idle, Goto
    <3>2. "init" \notin Inited /\ "idle" \notin Inited
      BY SMTT(30), Z3T(30) DEF Inited
    <3> QED
      BY <3>1, <3>2, Zenon
  <2> QED
    BY <1>3, <2>1, <2>2, Zenon DEF Application
<1> QED
  BY <1>1, <1>2, <1>3, Zenon DEF Next

\* Such a step preserves InitOnce.
LEMMA InitOnceKept ==
  ASSUME SearchTypeOK, InitOnce, InitKept,
         \/ pc' = pc
         \/ \E t \in Threads, l \in Inited \cup {"init", "idle"} :
              pc' = [pc EXCEPT ![t] = l] /\ (l \in Inited => pc[t] \in Inited)
  PROVE  InitOnce'
<1>1. CASE pc' = pc
  BY <1>1, Zenon DEF InitOnce, InitKept
<1>2. ASSUME NEW t \in Threads, NEW l \in Inited \cup {"init", "idle"},
             pc' = [pc EXCEPT ![t] = l], l \in Inited => pc[t] \in Inited
      PROVE  InitOnce'
  <2>1. l \notin Initing /\ l \notin {"errors_all", "sys_path"}
    BY SMTT(30), Z3T(30) DEF Inited, Initing
  <2>2. pc'[t] = l /\ \A u \in Threads : u # t => pc'[u] = pc[u]
    BY <1>2, Zenon DEF SearchTypeOK
  <2> QED
    BY <1>2, <2>1, <2>2, ZenonT(60) DEF InitOnce, InitKept
<1> QED
  BY <1>1, <1>2, Zenon

\* One lemma for each step of libocxl_init().
LEMMA InitSteps ==
  ASSUME MessagesTypeOK, SearchTypeOK, InitOnce, NEW t \in Threads, libocxl_init(t)
  PROVE  InitOnce'
<1>0. /\ env.trace_all \in BOOLEAN /\ env.verbose_errors_all \in BOOLEAN /\ env.syspath \in BOOLEAN
      /\ tracing_all \in BOOLEAN /\ verbose_errors_all \in BOOLEAN /\ sys_path \in BOOLEAN
  BY EnvTypes, Zenon DEF MessagesTypeOK
<1>a. \A u \in Threads : u # NoThread
  BY NoThreadAssumption, SMTT(30), Z3T(30)
<1>1. CASE AlreadyInited(t)
  <2>1. InitKept /\ libocxl_inited /\ pc'[t] = "inited" /\ \A u \in Threads : u # t => pc'[u] = pc[u]
    BY <1>1, Zenon DEF AlreadyInited, Goto, InitKept, initVars, flagVars, SearchTypeOK
  <2>2. "inited" \notin Initing /\ "inited" # "errors_all" /\ "inited" # "sys_path"
    BY SMTT(30), Z3T(30) DEF Initing
  <2> QED
    BY <2>1, <2>2, ZenonT(60) DEF InitOnce, InitKept
<1>2. CASE InitLock(t)
  <2>1. /\ UNCHANGED <<env, libocxl_inited, verbose_errors_all, tracing_all, sys_path>>
        /\ ~libocxl_inited /\ libocxl_inited_mutex = NoThread /\ libocxl_inited_mutex' = t
        /\ pc'[t] = "trace_all" /\ \A u \in Threads : u # t => pc'[u] = pc[u]
    BY <1>2, Zenon DEF InitLock, Goto, flagVars, SearchTypeOK
  <2>2. "trace_all" \notin Inited /\ "trace_all" # "errors_all" /\ "trace_all" # "sys_path"
    BY SMTT(30), Z3T(30) DEF Inited
  <2>3. \A u \in Threads : pc[u] \notin Initing
    BY <1>a, <2>1, Zenon DEF InitOnce
  <2> QED
    BY <2>1, <2>2, <2>3, ZenonT(60) DEF InitOnce
<1>3. CASE InitTraceAll(t)
  <2>1. /\ UNCHANGED <<env, libocxl_inited, libocxl_inited_mutex, verbose_errors_all, sys_path>>
        /\ tracing_all' = (tracing_all \/ env.trace_all)
        /\ pc[t] = "trace_all"
        /\ pc'[t] = "errors_all" /\ \A u \in Threads : u # t => pc'[u] = pc[u]
    BY <1>3, Zenon DEF InitTraceAll, Goto, SearchTypeOK
  <2>2. /\ "trace_all" \in Initing /\ "errors_all" \in Initing /\ "errors_all" \notin Inited
        /\ "errors_all" # "sys_path" /\ "sys_path" \in Initing
    BY SMTT(30), Z3T(30) DEF Initing, Inited
  <2>3. tracing_all' = env.trace_all
    BY <1>0, <2>1, Zenon DEF InitOnce
  <2>4. ~libocxl_inited /\ libocxl_inited_mutex = t /\ \A u \in Threads : u # t => pc[u] \notin Initing
    BY <2>1, <2>2, Zenon DEF InitOnce
  <2> QED
    BY <2>1, <2>2, <2>3, <2>4, ZenonT(60) DEF InitOnce
<1>4. CASE InitErrorsAll(t)
  <2>1. /\ UNCHANGED <<env, libocxl_inited, libocxl_inited_mutex, tracing_all, sys_path>>
        /\ verbose_errors_all' = (verbose_errors_all \/ env.verbose_errors_all)
        /\ pc[t] = "errors_all"
        /\ pc'[t] = "sys_path" /\ \A u \in Threads : u # t => pc'[u] = pc[u]
    BY <1>4, Zenon DEF InitErrorsAll, Goto, SearchTypeOK
  <2>2. "errors_all" \in Initing /\ "sys_path" \in Initing /\ "sys_path" \notin Inited
    BY SMTT(30), Z3T(30) DEF Initing, Inited
  <2>3. verbose_errors_all' = env.verbose_errors_all
    BY <1>0, <2>1, Zenon DEF InitOnce
  <2>4. ~libocxl_inited /\ libocxl_inited_mutex = t /\ \A u \in Threads : u # t => pc[u] \notin Initing
    BY <2>1, <2>2, Zenon DEF InitOnce
  <2>5. tracing_all = env.trace_all
    BY <2>1, Zenon DEF InitOnce
  <2> QED
    BY <2>1, <2>2, <2>3, <2>4, <2>5, ZenonT(60) DEF InitOnce
<1>5. CASE InitDone(t)
  <2>1. /\ UNCHANGED <<env, tracing_all, verbose_errors_all>> /\ libocxl_inited'
        /\ sys_path' = (sys_path \/ env.syspath)
        /\ pc[t] = "sys_path"
        /\ pc'[t] = "inited" /\ \A u \in Threads : u # t => pc'[u] = pc[u]
    BY <1>5, Zenon DEF InitDone, Goto, SearchTypeOK
  <2>2. /\ "sys_path" \in Initing /\ "errors_all" \in Initing
        /\ "inited" \notin Initing /\ "inited" # "errors_all" /\ "inited" # "sys_path"
    BY SMTT(30), Z3T(30) DEF Initing
  <2>3. sys_path' = env.syspath
    BY <1>0, <2>1, Zenon DEF InitOnce
  <2>4. \A u \in Threads : u # t => pc[u] \notin Initing
    BY <2>1, <2>2, Zenon DEF InitOnce
  <2>5. tracing_all = env.trace_all /\ verbose_errors_all = env.verbose_errors_all
    BY <2>1, Zenon DEF InitOnce
  <2> QED
    BY <2>1, <2>2, <2>3, <2>4, <2>5, ZenonT(60) DEF InitOnce
<1> QED
  BY <1>1, <1>2, <1>3, <1>4, <1>5, Zenon DEF libocxl_init

\* InitOnce holds always.
LEMMA InitInvariant == Spec => []InitOnce
<1>1. Init => InitOnce
  <2> SUFFICES ASSUME Init PROVE InitOnce
    BY Zenon
  <2>1. /\ libocxl_inited = FALSE /\ tracing_all = FALSE /\ verbose_errors_all = FALSE /\ sys_path = FALSE
        /\ \A t \in Threads : pc[t] = "idle"
    BY Zenon DEF Init, MessagesInit
  <2>2. "idle" \notin Initing /\ "idle" \notin Inited /\ "idle" \notin {"errors_all", "sys_path"}
    BY SMTT(30), Z3T(30) DEF Initing, Inited
  <2> QED
    BY <2>1, <2>2, ZenonT(30) DEF InitOnce
<1>2. TypeOK /\ InitOnce /\ [Next]_vars => InitOnce'
  <2> SUFFICES ASSUME TypeOK, InitOnce, [Next]_vars PROVE InitOnce'
    BY Zenon
  <2>1. MessagesTypeOK /\ SearchTypeOK
    BY Zenon DEF TypeOK, SearchTypeOK
  <2> QED
    BY <2>1, MovesOutsideInit, InitOnceKept, InitSteps, Zenon DEF CallsInit, InitMove
<1> QED
  BY <1>1, <1>2, SearchTypesHold, PTL DEF Spec

-------------------------------------------------------------------------------
(* The members of the handles.                                               *)

AsTold(t) ==
  /\ afu_verbose_errors[t] =
       IF told[t] = NoCall THEN env.verbose_errors_all ELSE OCXL_ERRORS \in told[t]
  /\ afu_tracing[t] =
       IF told[t] = NoCall THEN env.trace_all ELSE OCXL_TRACING \in told[t]
  /\ afu_sysfs_path[t] = env.syspath

MembersShape(t) == pc[t] \in {"open", "finish"} \/ IsOpen(t) => AsTold(t)

MembersShapes == \A t \in Threads : MembersShape(t)

\* Nothing that the members depend on changes, for the thread u.
MembersKept(u) ==
  /\ env' = env /\ told'[u] = told[u] /\ afu_verbose_errors'[u] = afu_verbose_errors[u]
  /\ afu_tracing'[u] = afu_tracing[u] /\ afu_sysfs_path'[u] = afu_sysfs_path[u]

\* No handle comes to be used.
NoHandleGained(u) ==
  pc'[u] \in {"open", "finish"} \/ IsOpen(u)' => pc[u] \in {"open", "finish"} \/ IsOpen(u)

\* A handle's members stay right while they are not written.
LEMMA MembersStay ==
  ASSUME MembersShapes, NEW u \in Threads, MembersKept(u), NoHandleGained(u)
  PROVE  MembersShape(u)'
<1>1. AsTold(u) => AsTold(u)'
  BY Zenon DEF AsTold, MembersKept
<1> QED
  BY <1>1, Zenon DEF MembersShapes, MembersShape, NoHandleGained

\* The steps of an open call keep the members of handles right.
LEMMA CallMembers ==
  ASSUME SearchTypeOK, MessagesTypeOK, InitOnce, SearchShapes, MembersShapes, NEW t \in Threads, CallStep(t)
  PROVE  MembersShapes'
<1> USE DEF messageVars, initVars, flagVars, memberVars, searchVars
<1>1. CASE CallsInit(t)
  <2>1. /\ UNCHANGED <<env, memberVars, afu>>
        /\ \E l \in {"trace_all", "errors_all", "sys_path", "inited"} : pc' = [pc EXCEPT ![t] = l]
    BY <1>1, ZenonT(30) DEF CallsInit, libocxl_init, AlreadyInited, InitLock, InitTraceAll, InitErrorsAll, InitDone, Goto
  <2>2. \A u \in Threads : MembersKept(u) /\ NoHandleGained(u)
    BY <2>1, ZenonT(60) DEF MembersKept, NoHandleGained, IsOpen, SearchTypeOK
  <2> QED
    BY <2>2, MembersStay, Zenon DEF MembersShapes
<1>2. CASE Glob(t) \/ HasPath(t)
  <2>1. /\ UNCHANGED <<env, memberVars, afu>>
        /\ \E l \in {"init", "path"} : pc' = [pc EXCEPT ![t] = l]
    BY <1>2, Zenon DEF Glob, HasPath, Goto
  <2>2. \A u \in Threads : MembersKept(u) /\ NoHandleGained(u)
    BY <2>1, SMTT(30), Z3T(30) DEF MembersKept, NoHandleGained, IsOpen, SearchTypeOK
  <2> QED
    BY <2>2, MembersStay, Zenon DEF MembersShapes
<1>3. CASE Fails(t) \/ \E d \in Devs : FinishFails(t, d)
  <2>1. /\ UNCHANGED <<env, memberVars>> /\ pc' = [pc EXCEPT ![t] = "returned"]
        /\ afu' = [afu EXCEPT ![t] = OCXL_INVALID_AFU]
    BY <1>3, Zenon DEF Fails, GlobFails, GetAfuByPathFails, OpenDeviceFails, FinishFails, Fail, Goto
  <2>2. \A u \in Threads : MembersKept(u) /\ NoHandleGained(u)
    BY <2>1, SMTT(30), Z3T(30) DEF MembersKept, NoHandleGained, IsOpen, SearchTypeOK
  <2> QED
    BY <2>2, MembersStay, Zenon DEF MembersShapes
<1>4. ASSUME NEW d \in Devs, OpenDevice(t, d) \/ NoMoreContexts(t, d) \/ FinishOpen(t, d) PROVE MembersShapes'
  <2>1. /\ UNCHANGED <<env, memberVars>> /\ pc[t] \in {"open", "finish"}
        /\ \E l : pc' = [pc EXCEPT ![t] = l]
        /\ \A u \in Threads : u # t => afu'[u] = afu[u]
    BY <1>4, Zenon DEF OpenDevice, NoMoreContexts, FinishOpen, Goto, SearchTypeOK
  <2>2. \A u \in Threads : MembersKept(u) /\ NoHandleGained(u)
    BY <2>1, Zenon DEF MembersKept, NoHandleGained, IsOpen, SearchTypeOK
  <2> QED
    BY <2>2, MembersStay, Zenon DEF MembersShapes
<1>5. ASSUME NEW d \in Devs, GetAfuByPath(t, d) PROVE MembersShapes'
  <2>1. pc[t] = "path" /\ afu_init(t) /\ UNCHANGED <<initVars, afu>> /\ pc' = [pc EXCEPT ![t] = "open"]
    BY <1>5, Zenon DEF GetAfuByPath, Goto
  <2>2. libocxl_inited
    BY <2>1, SMTT(30), Z3T(30) DEF InitOnce, Inited
  <2>3. AsTold(t)'
    BY <2>1, <2>2, Zenon DEF AsTold, afu_init, InitOnce, MessagesTypeOK
  <2>4. \A u \in Threads : u # t => MembersKept(u) /\ NoHandleGained(u)
    BY <2>1, Zenon DEF MembersKept, NoHandleGained, IsOpen, SearchTypeOK, MessagesTypeOK, afu_init
  <2> QED
    BY <2>3, <2>4, MembersStay, Zenon DEF MembersShapes, MembersShape
<1> QED
  BY <1>1, <1>2, <1>3, <1>4, <1>5, Zenon DEF CallStep, DeviceStep, Fails

\* So does what the application does between calls.
LEMMA ApplicationMembers ==
  ASSUME SearchTypeOK, MessagesTypeOK, MembersShapes, NEW t \in Threads, Application(t)
  PROVE  MembersShapes'
<1> USE DEF messageVars, initVars, flagVars, memberVars, searchVars
<1>1. CASE ocxl_afu_open_specific(t) \/ ocxl_afu_open_from_dev(t)
  <2>1. /\ UNCHANGED <<env, memberVars>> /\ pc' = [pc EXCEPT ![t] = "init"]
        /\ \A u \in Threads : u # t => afu'[u] = afu[u]
    BY <1>1, Zenon DEF ocxl_afu_open_specific, ocxl_afu_open_from_dev, Begin, Goto, SearchTypeOK
  <2>2. \A u \in Threads : MembersKept(u) /\ NoHandleGained(u)
    BY <2>1, SMTT(30), Z3T(30) DEF MembersKept, NoHandleGained, IsOpen, SearchTypeOK
  <2> QED
    BY <2>2, MembersStay, Zenon DEF MembersShapes
<1>2. CASE ocxl_afu_close(t) \/ GivesUp(t)
  <2>1. /\ UNCHANGED env /\ pc' = [pc EXCEPT ![t] = "idle"] /\ Forget(t)
        /\ \A u \in Threads : u # t => afu'[u] = afu[u]
    BY <1>2, Zenon DEF ocxl_afu_close, GivesUp, Idle, Goto, SearchTypeOK
  <2>2. \A u \in Threads : u # t => MembersKept(u) /\ NoHandleGained(u)
    BY <2>1, Zenon DEF MembersKept, NoHandleGained, IsOpen, SearchTypeOK, MessagesTypeOK, Forget
  <2>3. MembersShape(t)'
    BY <2>1, SMTT(30), Z3T(30) DEF MembersShape, IsOpen, SearchTypeOK
  <2> QED
    BY <2>2, <2>3, MembersStay, Zenon DEF MembersShapes
<1>3. CASE SetsMessages(t)
  <2>1. PICK sources \in Asked : ocxl_afu_enable_messages(t, sources)
    BY <1>3, Zenon DEF SetsMessages
  <2>2. IsOpen(t) /\ UNCHANGED <<env, pc, afu, afu_sysfs_path>>
    BY <1>3, Zenon DEF SetsMessages, ocxl_afu_enable_messages
  <2>3. \A u \in Threads : u # t => MembersKept(u) /\ NoHandleGained(u)
    BY <2>1, <2>2, Zenon DEF MembersKept, NoHandleGained, IsOpen, MessagesTypeOK, ocxl_afu_enable_messages
  <2>4. sources # NoCall
    BY NoCallIsNoSource, MessagesAssumption, SMTT(30), Z3T(30)
  <2>5. /\ told'[t] = sources /\ afu_verbose_errors'[t] = (OCXL_ERRORS \in sources)
        /\ afu_tracing'[t] = (OCXL_TRACING \in sources)
    BY <2>1, Zenon DEF ocxl_afu_enable_messages, MessagesTypeOK
  <2>6. AsTold(t) /\ afu_sysfs_path'[t] = env'.syspath
    BY <2>2, Zenon DEF MembersShapes, MembersShape, AsTold
  <2>7. AsTold(t)'
    BY <2>4, <2>5, <2>6, Zenon DEF AsTold
  <2> QED
    BY <2>3, <2>7, MembersStay, Zenon DEF MembersShapes, MembersShape
<1> QED
  BY <1>1, <1>2, <1>3, Zenon DEF Application

\* Each handle starts with what the environment says, whichever thread has
\* initialised the library and however far it had come.
THEOREM HandlesFollow == Spec => []HandlesFollowEnvironment
<1>1. Init => MembersShapes
  BY SMTT(30), Z3T(30) DEF Init, MembersShapes, MembersShape, IsOpen
<1>2. TypeOK /\ InitOnce /\ SearchShapes /\ MembersShapes /\ [Next]_vars => MembersShapes'
  <2> SUFFICES ASSUME TypeOK, InitOnce, SearchShapes, MembersShapes, [Next]_vars PROVE MembersShapes'
    BY Zenon
  <2>1. MessagesTypeOK /\ SearchTypeOK
    BY Zenon DEF TypeOK, SearchTypeOK
  <2>2. CASE UNCHANGED vars \/ System \/ ProcessWide
    <3>1. UNCHANGED <<env, memberVars, pc, afu>>
      BY <2>2, Zenon DEF vars, messageVars, initVars, searchVars, System, OtherOpens, OtherCloses, ProcessWide,
         EnableErrors, EnableTracing
    <3>2. \A u \in Threads : MembersKept(u) /\ NoHandleGained(u)
      BY <3>1, Zenon DEF MembersKept, NoHandleGained, IsOpen, memberVars
    <3> QED
      BY <3>2, MembersStay, Zenon DEF MembersShapes
  <2> QED
    BY <2>1, <2>2, CallMembers, ApplicationMembers, Zenon DEF Next
<1>3. MembersShapes => HandlesFollowEnvironment
  BY Zenon DEF MembersShapes, MembersShape, HandlesFollowEnvironment, AsTold
<1> QED
  BY <1>1, <1>2, <1>3, SearchTypesHold, InitInvariant, SearchInvariant, PTL DEF Spec

-------------------------------------------------------------------------------
(* ocxl_enable_messages().                                                   *)

WordShape ==
  asked # NoCall =>
    /\ libocxl_inited
    /\ verbose_errors = (OCXL_ERRORS \in asked)
    /\ enabling = NoCall => tracing = (OCXL_TRACING \in asked)
    /\ enabling # NoCall => enabling = asked

\* Every step preserves WordShape.
LEMMA NextWord ==
  ASSUME TypeOK, InitOnce, WordShape, [Next]_vars
  PROVE  WordShape'
<1> USE DEF initVars, flagVars, enableVars
<1>1. CASE Reads
  BY <1>1, Zenon DEF Reads, WordShape
<1>2. ASSUME NEW t \in Threads, libocxl_init(t) PROVE WordShape'
  <2>1. CASE AlreadyInited(t)
    BY <2>1, Zenon DEF AlreadyInited, WordShape
  <2>2. CASE InitLock(t) \/ InitTraceAll(t) \/ InitErrorsAll(t) \/ InitDone(t)
    <3>1. ~libocxl_inited /\ asked' = asked
      BY <2>2, SMTT(30), Z3T(30) DEF InitLock, InitTraceAll, InitErrorsAll, InitDone, InitOnce, Initing
    <3> QED
      BY <3>1, Zenon DEF WordShape
  <2> QED
    BY <1>2, <2>1, <2>2, Zenon DEF libocxl_init
<1>3. CASE ProcessWide
  <2>1. ASSUME NEW sources \in Asked, EnableErrors(sources) PROVE WordShape'
    <3>1. sources # NoCall
      BY NoCallIsNoSource, MessagesAssumption, SMTT(30), Z3T(30)
    <3>2. /\ enabling' = sources /\ verbose_errors' = (OCXL_ERRORS \in sources) /\ libocxl_inited' = libocxl_inited
          /\ asked' = IF libocxl_inited THEN sources ELSE NoCall
      BY <2>1, Zenon DEF EnableErrors
    <3> QED
      BY <3>1, <3>2, Zenon DEF WordShape
  <2>2. CASE EnableTracing
    BY <2>2, Zenon DEF EnableTracing, WordShape
  <2> QED
    BY <1>3, <2>1, <2>2, Zenon DEF ProcessWide
<1> QED
  BY <1>1, <1>2, <1>3, StepsOfMessages, Zenon DEF MessagesStep

\* What ocxl_enable_messages() sets after the first open call stays set.
THEOREM WordStands == Spec => []LastWordStands
<1>1. Init => WordShape
  BY Zenon DEF Init, MessagesInit, WordShape
<1>2. WordShape => LastWordStands
  BY Zenon DEF WordShape, LastWordStands
<1> QED
  BY <1>1, <1>2, NextWord, SearchTypesHold, InitInvariant, PTL DEF Spec

-------------------------------------------------------------------------------
(* What a failed call has said.                                              *)

Heard(t) ==
  /\ ~quiet[t] => verbose_errors
  /\ pc[t] = "returned" /\ ret[t] # "OCXL_OK" /\ ~quiet[t] => said[t] = ret[t]

HeardAll == \A t \in Threads : Heard(t)

HeardKept(u) ==
  /\ verbose_errors' = verbose_errors /\ quiet'[u] = quiet[u] /\ said'[u] = said[u]
  /\ pc'[u] = pc[u] /\ ret'[u] = ret[u]

\* What was said stays said.
LEMMA HeardStays ==
  ASSUME HeardAll, NEW u \in Threads, HeardKept(u)
  PROVE  Heard(u)'
  BY Zenon DEF HeardAll, Heard, HeardKept

\* libocxl_init() keeps the account of what was said.
LEMMA InitHeard ==
  ASSUME SearchTypeOK, MessagesTypeOK, HeardAll, NEW t \in Threads, CallsInit(t)
  PROVE  HeardAll'
<1> USE DEF initVars, flagVars, reportVars, searchVars
<1>1. /\ ret' = ret /\ (verbose_errors => verbose_errors')
      /\ \/ quiet' = quiet
         \/ quiet' = [quiet EXCEPT ![t] = ~verbose_errors] /\ verbose_errors' = verbose_errors
      /\ said' = said
      /\ \E l \in {"trace_all", "errors_all", "sys_path", "inited"} : pc' = [pc EXCEPT ![t] = l]
  <2>0. ret' = ret
    BY Zenon DEF CallsInit
  <2>1. said' = said /\ \E l \in {"trace_all", "errors_all", "sys_path", "inited"} : pc' = [pc EXCEPT ![t] = l]
    BY SMTT(30), Z3T(30) DEF CallsInit, libocxl_init, AlreadyInited, InitLock, InitTraceAll, InitErrorsAll, InitDone, Goto
  <2>2. CASE AlreadyInited(t) \/ InitDone(t)
    <3>1. verbose_errors' = verbose_errors /\ quiet' = [quiet EXCEPT ![t] = ~verbose_errors]
      BY <2>2, Zenon DEF AlreadyInited, InitDone
    <3>2. verbose_errors => verbose_errors'
      BY <3>1, SMTT(30), Z3T(30)
    <3> QED
      BY <2>0, <2>1, <3>1, <3>2, Zenon
  <2>3. CASE InitLock(t) \/ InitTraceAll(t)
    <3>1. verbose_errors' = verbose_errors /\ quiet' = quiet
      BY <2>3, Zenon DEF InitLock, InitTraceAll
    <3>2. verbose_errors => verbose_errors'
      BY <3>1, SMTT(30), Z3T(30)
    <3> QED
      BY <2>0, <2>1, <3>1, <3>2, Zenon
  <2>4. CASE InitErrorsAll(t)
    BY <2>0, <2>1, <2>4, Zenon DEF InitErrorsAll
  <2> QED
    BY <2>2, <2>3, <2>4, Zenon DEF CallsInit, libocxl_init
<1>2. pc'[t] # "returned" /\ \A u \in Threads : u # t => pc'[u] = pc[u] /\ quiet'[u] = quiet[u]
  BY <1>1, SMTT(30), Z3T(30) DEF SearchTypeOK, MessagesTypeOK
<1>3. ~quiet'[t] => verbose_errors'
  BY <1>1, Zenon DEF HeardAll, Heard, MessagesTypeOK
<1> QED
  BY <1>1, <1>2, <1>3, ZenonT(30) DEF HeardAll, Heard

\* The steps of an open call keep the account of what was said.
LEMMA CallHeard ==
  ASSUME SearchTypeOK, MessagesTypeOK, HeardAll, NEW t \in Threads, CallStep(t)
  PROVE  HeardAll'
<1> USE DEF messageVars, initVars, flagVars, reportVars, searchVars
<1>1. CASE Glob(t) \/ HasPath(t) \/ \E d \in Devs : GetAfuByPath(t, d) \/ OpenDevice(t, d) \/ FinishOpen(t, d)
  <2>1. UNCHANGED <<verbose_errors, quiet, said>>
    BY <1>1, ZenonT(60) DEF Glob, HasPath, GetAfuByPath, OpenDevice, FinishOpen
  <2>2. /\ pc'[t] # "returned" \/ ret'[t] = "OCXL_OK"
        /\ \A u \in Threads : u # t => pc'[u] = pc[u] /\ ret'[u] = ret[u]
    BY <1>1, SMTT(30), Z3T(30) DEF Glob, HasPath, GetAfuByPath, OpenDevice, FinishOpen, Goto, SearchTypeOK
  <2>3. Heard(t)'
    BY <2>1, <2>2, Zenon DEF HeardAll, Heard
  <2> QED
    BY <2>1, <2>2, <2>3, HeardStays, Zenon DEF HeardAll, HeardKept
<1>2. CASE Fails(t) \/ \E d \in Devs : FinishFails(t, d) \/ NoMoreContexts(t, d)
  <2>1. PICK rc : errmsg(t, rc) /\ ret' = [ret EXCEPT ![t] = rc] /\ UNCHANGED <<verbose_errors, quiet>>
                  /\ \E l : pc' = [pc EXCEPT ![t] = l]
    BY <1>2, Zenon DEF Fails, GlobFails, GetAfuByPathFails, OpenDeviceFails, FinishFails, NoMoreContexts, Fail, Goto
  <2>2. \A u \in Threads : u # t => HeardKept(u)
    BY <2>1, Zenon DEF HeardKept, errmsg, SearchTypeOK, MessagesTypeOK
  <2>3. verbose_errors => said'[t] = ret'[t]
    BY <2>1, Zenon DEF errmsg, SearchTypeOK, MessagesTypeOK
  <2>4. Heard(t)'
    BY <2>1, <2>3, Zenon DEF HeardAll, Heard
  <2> QED
    BY <2>2, <2>4, HeardStays, Zenon DEF HeardAll
<1> QED
  BY <1>1, <1>2, InitHeard, Zenon DEF CallStep, DeviceStep, Fails

\* So does everything outside the open calls.
LEMMA OutsideHeard ==
  ASSUME SearchTypeOK, MessagesTypeOK, HeardAll,
         UNCHANGED vars \/ System \/ ProcessWide \/ \E t \in Threads : Application(t)
  PROVE  HeardAll'
<1> USE DEF messageVars, initVars, flagVars, reportVars, searchVars
<1>1. CASE UNCHANGED vars \/ System \/ \E t \in Threads : SetsMessages(t)
  <2>1. UNCHANGED <<verbose_errors, quiet, said, pc, ret>>
    BY <1>1, Zenon DEF vars, System, OtherOpens, OtherCloses, SetsMessages, ocxl_afu_enable_messages
  <2> QED
    BY <2>1, Zenon DEF HeardAll, Heard
<1>2. CASE EnableTracing /\ UNCHANGED <<inuse, searchVars>>
  BY <1>2, Zenon DEF EnableTracing, HeardAll, Heard
<1>3. ASSUME NEW sources \in Asked, EnableErrors(sources), UNCHANGED <<inuse, searchVars>> PROVE HeardAll'
  <2>1. /\ verbose_errors' = (OCXL_ERRORS \in sources) /\ UNCHANGED <<said, pc, ret>>
        /\ \A u \in Threads : quiet'[u] = (quiet[u] \/ OCXL_ERRORS \notin sources)
    BY <1>3, Zenon DEF EnableErrors
  <2> QED
    BY <2>1, Zenon DEF HeardAll, Heard
<1>4. ASSUME NEW t \in Threads, ocxl_afu_open_specific(t) \/ ocxl_afu_open_from_dev(t) PROVE HeardAll'
  <2>1. /\ UNCHANGED <<verbose_errors, quiet, said>> /\ pc'[t] # "returned"
        /\ \A u \in Threads : u # t => pc'[u] = pc[u] /\ ret'[u] = ret[u]
    BY <1>4, SMTT(30), Z3T(30) DEF ocxl_afu_open_specific, ocxl_afu_open_from_dev, Begin, Goto, SearchTypeOK
  <2>2. Heard(t)'
    BY <2>1, Zenon DEF HeardAll, Heard
  <2> QED
    BY <2>1, <2>2, HeardStays, Zenon DEF HeardAll, HeardKept
<1>5. ASSUME NEW t \in Threads, ocxl_afu_close(t) \/ GivesUp(t) PROVE HeardAll'
  <2>1. Idle(t) /\ UNCHANGED verbose_errors
    BY <1>5, Zenon DEF ocxl_afu_close, GivesUp
  <2>2. quiet'[t] /\ \A u \in Threads : u # t => HeardKept(u)
    BY <2>1, Zenon DEF HeardKept, Idle, Forget, Goto, SearchTypeOK, MessagesTypeOK
  <2> QED
    BY <2>2, HeardStays, Zenon DEF HeardAll, Heard
<1> QED
  BY <1>1, <1>2, <1>3, <1>4, <1>5, Zenon DEF ProcessWide, Application

\* While errors are on, no open call fails without saying so, and the error
\* said last is the one that is returned.
THEOREM FailuresSaid == Spec => []FailuresAreSaid
<1>1. Init => HeardAll
  BY Zenon DEF Init, MessagesInit, HeardAll, Heard
<1>2. TypeOK /\ HeardAll /\ [Next]_vars => HeardAll'
  <2> SUFFICES ASSUME TypeOK, HeardAll, [Next]_vars PROVE HeardAll'
    BY Zenon
  <2>1. MessagesTypeOK /\ SearchTypeOK
    BY Zenon DEF TypeOK, SearchTypeOK
  <2> QED
    BY <2>1, CallHeard, OutsideHeard, Zenon DEF Next
<1>3. HeardAll => FailuresAreSaid
  BY Zenon DEF HeardAll, Heard, FailuresAreSaid
<1> QED
  BY <1>1, <1>2, <1>3, SearchTypesHold, PTL DEF Spec

================================================================================
