------------------------------ MODULE AfuSearch ------------------------------
(***************************************************************************)
(* The open calls: ocxl_afu_open_from_dev() for one device file, and       *)
(* ocxl_afu_open_specific() (ocxl_afu_open() asks for any function and any *)
(* index), which tries the device files that glob() lists one after the    *)
(* other.  Threads open at the same time; other processes take and give    *)
(* back contexts between any two steps, and device files come and go: a    *)
(* file may be missing from the list, or be gone when its turn comes.      *)
(* What becomes of the handle itself is in module AfuContext.              *)
(***************************************************************************)
EXTENDS Messages, Integers, FiniteSets

CONSTANTS
  NumDevs,        \* device files, numbered in the order in which glob() sorts them
  Entry,          \* what each one's name says: AFU name, physical function, index
  Capacity,       \* the contexts each device can run
  Others,         \* other processes that use the devices
  ANY,            \* NULL for the physical function, -1 for the index
  Requests        \* bound: what ocxl_afu_open_specific() is asked for

Devs == 1 .. NumDevs

OCXL_INVALID_AFU == 0

ASSUME DevsAssumption ==
  /\ NumDevs \in Nat
  /\ Capacity \in [Devs -> Nat]
  /\ Others \cap Threads = {}

VARIABLES
  inuse,          \* the contexts of each device: who holds one
  request,        \* what the call is for, NoRequest if for a device file
  found, left,    \* what glob() listed, and what of it is still to be tried
  ret,            \* the result so far
  afu,            \* the device of the handle, or OCXL_INVALID_AFU
  refused         \* history: the devices that had no context left when tried

searchVars == <<request, found, left, ret, afu, refused>>
vars == <<messageVars, pc, inuse, searchVars>>

NoRequest == [name |-> ANY, function |-> ANY, index |-> ANY]

\* The pattern: the name, "*" or a function, "*" or an index.
Matches(r, d) ==
  /\ r.name = Entry[d].name
  /\ r.function \in {ANY, Entry[d].function}
  /\ r.index \in {ANY, Entry[d].index}

Calling == {"init", "trace_all", "errors_all", "sys_path", "inited", "path", "open", "finish"}

-------------------------------------------------------------------------------
(* The system around the process.                                           *)

\* open() and close() of a device file: the last context may be gone (ENOSPC).
Full(d) == Cardinality(inuse[d]) >= Capacity[d]

OtherOpens(o, d) ==
  /\ ~Full(d)
  /\ inuse' = [inuse EXCEPT ![d] = @ \cup {o}]
  /\ UNCHANGED <<messageVars, pc, searchVars>>

OtherCloses(o, d) ==
  /\ o \in inuse[d]
  /\ inuse' = [inuse EXCEPT ![d] = @ \ {o}]
  /\ UNCHANGED <<messageVars, pc, searchVars>>

-------------------------------------------------------------------------------
(* The calls begin.                                                         *)

\* Mutant of Begin: ret has no value until a device has been tried.
BeginUninitialised(t, r, devs) ==
  /\ pc[t] = "idle"
  /\ request' = [request EXCEPT ![t] = r]
  /\ found' = [found EXCEPT ![t] = devs]
  /\ left' = [left EXCEPT ![t] = devs]
  /\ ret' = [ret EXCEPT ![t] = "uninitialised"]
  /\ afu' = [afu EXCEPT ![t] = OCXL_INVALID_AFU]
  /\ refused' = [refused EXCEPT ![t] = {}]
  /\ Goto(t, "init")
  /\ UNCHANGED <<messageVars, inuse>>

Begin(t, r, devs) ==
  /\ pc[t] = "idle"
  /\ request' = [request EXCEPT ![t] = r]
  /\ found' = [found EXCEPT ![t] = devs]
  /\ left' = [left EXCEPT ![t] = devs]
  /\ ret' = [ret EXCEPT ![t] = "OCXL_INTERNAL_ERROR"]
  /\ afu' = [afu EXCEPT ![t] = OCXL_INVALID_AFU]
  /\ refused' = [refused EXCEPT ![t] = {}]
  /\ Goto(t, "init")
  /\ UNCHANGED <<messageVars, inuse>>

ocxl_afu_open_specific(t) == \E r \in Requests : Begin(t, r, {})

ocxl_afu_open_from_dev(t) == \E d \in Devs : Begin(t, NoRequest, {d})

CallsInit(t) == libocxl_init(t) /\ UNCHANGED <<inuse, searchVars>>

\* The call returns the error rc, having said so.
Fail(t, rc) ==
  /\ ret' = [ret EXCEPT ![t] = rc]
  /\ afu' = [afu EXCEPT ![t] = OCXL_INVALID_AFU]
  /\ errmsg(t, rc)
  /\ Goto(t, "returned")

\* ocxl_afu_open_specific() has its list still to make.
ToList(t) == pc[t] = "inited" /\ request[t] # NoRequest /\ found[t] = {}

\* glob() lists the files that match and exist just then; the first goes to
\* ocxl_afu_open_from_dev(), which begins with libocxl_init() again.
Glob(t) ==
  /\ ToList(t)
  /\ \E S \in SUBSET {d \in Devs : Matches(request[t], d)} :
       /\ S # {}
       /\ found' = [found EXCEPT ![t] = S]
       /\ left' = [left EXCEPT ![t] = S]
  /\ Goto(t, "init")
  /\ UNCHANGED <<messageVars, inuse, request, ret, afu, refused>>

\* GLOB_NOMATCH, GLOB_NOSPACE, or another error of glob().
GlobFails(t) ==
  /\ ToList(t)
  /\ Fail(t, "OCXL_NO_DEV") \/ Fail(t, "OCXL_NO_MEM") \/ Fail(t, "OCXL_INTERNAL_ERROR")
  /\ UNCHANGED <<initVars, enableVars, memberVars, quiet, inuse, request, found, left, refused>>

\* ocxl_afu_open_from_dev() has its device file.
HasPath(t) ==
  /\ pc[t] = "inited"
  /\ found[t] # {}
  /\ Goto(t, "path")
  /\ UNCHANGED <<messageVars, inuse, searchVars>>

-------------------------------------------------------------------------------
(* One device file: get_afu_by_path(), then afu_open().                     *)

\* The device whose turn it is.
Current(t, d) == d \in left[t] /\ \A e \in left[t] : d <= e

\* afu_alloc() with its afu_init(), stat(), populate_metadata().
GetAfuByPath(t, d) ==
  /\ pc[t] = "path"
  /\ Current(t, d)
  /\ afu_init(t)
  /\ Goto(t, "open")
  /\ UNCHANGED <<initVars, enableVars, reportVars, inuse, searchVars>>

\* No memory for the handle; the device file is gone, its entry is not found
\* or cannot be parsed, or there is no memory for its paths.
GetAfuByPathFails(t, d) ==
  /\ pc[t] = "path"
  /\ Current(t, d)
  /\ Fail(t, "OCXL_NO_MEM") \/ Fail(t, "OCXL_NO_DEV")
  /\ UNCHANGED <<initVars, enableVars, memberVars, quiet, inuse, request, found, left, refused>>

OpenDevice(t, d) ==
  /\ pc[t] = "open"
  /\ Current(t, d)
  /\ ~Full(d)
  /\ inuse' = [inuse EXCEPT ![d] = @ \cup {t}]
  /\ Goto(t, "finish")
  /\ UNCHANGED <<messageVars, searchVars>>

\* Mutant of NoMoreContexts: any error of open() is taken for ENOSPC.
OpenErrorContinues(t, d) ==
  /\ pc[t] = "open"
  /\ Current(t, d)
  /\ refused' = IF Full(d) THEN [refused EXCEPT ![t] = @ \cup {d}] ELSE refused
  /\ left' = [left EXCEPT ![t] = @ \ {d}]
  /\ ret' = [ret EXCEPT ![t] = "OCXL_NO_MORE_CONTEXTS"]
  /\ errmsg(t, "OCXL_NO_MORE_CONTEXTS")
  /\ Goto(t, IF left[t] = {d} THEN "returned" ELSE "init")
  /\ UNCHANGED <<initVars, enableVars, memberVars, quiet, inuse, request, found, afu>>

\* open() gives ENOSPC: the search goes on with the next device file, if any.
NoMoreContexts(t, d) ==
  /\ pc[t] = "open"
  /\ Current(t, d)
  /\ Full(d)
  /\ refused' = [refused EXCEPT ![t] = @ \cup {d}]
  /\ left' = [left EXCEPT ![t] = @ \ {d}]
  /\ ret' = [ret EXCEPT ![t] = "OCXL_NO_MORE_CONTEXTS"]
  /\ errmsg(t, "OCXL_NO_MORE_CONTEXTS")
  /\ Goto(t, IF left[t] = {d} THEN "returned" ELSE "init")
  /\ UNCHANGED <<initVars, enableVars, memberVars, quiet, inuse, request, found, afu>>

\* open() fails otherwise: the search ends.
OpenDeviceFails(t, d) ==
  /\ pc[t] = "open"
  /\ Current(t, d)
  /\ Fail(t, "OCXL_NO_DEV")
  /\ UNCHANGED <<initVars, enableVars, memberVars, quiet, inuse, request, found, left, refused>>

\* The rest of afu_open() succeeds.
FinishOpen(t, d) ==
  /\ pc[t] = "finish"
  /\ Current(t, d)
  /\ ret' = [ret EXCEPT ![t] = "OCXL_OK"]
  /\ afu' = [afu EXCEPT ![t] = d]
  /\ Goto(t, "returned")
  /\ UNCHANGED <<messageVars, inuse, request, found, left, refused>>

\* Mutant of FinishFails: the handle is dropped without ocxl_afu_close().
FinishFailsNoClose(t, d) ==
  /\ pc[t] = "finish"
  /\ Current(t, d)
  /\ Fail(t, "OCXL_NO_DEV")
  /\ UNCHANGED <<initVars, enableVars, memberVars, quiet, inuse, request, found, left, refused>>

\* A later step of afu_open() fails, and ocxl_afu_close() closes the device.
FinishFails(t, d) ==
  /\ pc[t] = "finish"
  /\ Current(t, d)
  /\ inuse' = [inuse EXCEPT ![d] = @ \ {t}]
  /\ Fail(t, "OCXL_NO_DEV")
  /\ UNCHANGED <<initVars, enableVars, memberVars, quiet, request, found, left, refused>>

-------------------------------------------------------------------------------
(* The application after the call.                                          *)

IsOpen(t) == pc[t] = "returned" /\ afu[t] # OCXL_INVALID_AFU

\* What the call has left behind is of no more use.
Idle(t) ==
  /\ request' = [request EXCEPT ![t] = NoRequest]
  /\ found' = [found EXCEPT ![t] = {}]
  /\ left' = [left EXCEPT ![t] = {}]
  /\ ret' = [ret EXCEPT ![t] = "OCXL_OK"]
  /\ afu' = [afu EXCEPT ![t] = OCXL_INVALID_AFU]
  /\ refused' = [refused EXCEPT ![t] = {}]
  /\ Forget(t)
  /\ Goto(t, "idle")

ocxl_afu_close(t) ==
  /\ IsOpen(t)
  /\ inuse' = [inuse EXCEPT ![afu[t]] = @ \ {t}]
  /\ Idle(t)
  /\ UNCHANGED <<initVars, enableVars>>

GivesUp(t) ==
  /\ pc[t] = "returned"
  /\ afu[t] = OCXL_INVALID_AFU
  /\ Idle(t)
  /\ UNCHANGED <<initVars, enableVars, inuse>>

SetsMessages(t) ==
  /\ IsOpen(t)
  /\ \E sources \in Asked : ocxl_afu_enable_messages(t, sources)
  /\ UNCHANGED <<inuse, searchVars>>

-------------------------------------------------------------------------------
Init ==
  /\ MessagesInit
  /\ pc = [t \in Threads |-> "idle"]
  /\ inuse = [d \in Devs |-> {}]
  /\ request = [t \in Threads |-> NoRequest]
  /\ found = [t \in Threads |-> {}]
  /\ left = [t \in Threads |-> {}]
  /\ ret = [t \in Threads |-> "OCXL_OK"]
  /\ afu = [t \in Threads |-> OCXL_INVALID_AFU]
  /\ refused = [t \in Threads |-> {}]

DeviceStep(t, d) ==
  \/ GetAfuByPath(t, d) \/ GetAfuByPathFails(t, d)
  \/ OpenDevice(t, d) \/ NoMoreContexts(t, d) \/ OpenDeviceFails(t, d)
  \/ FinishOpen(t, d) \/ FinishFails(t, d)

CallStep(t) ==
  \/ CallsInit(t) \/ Glob(t) \/ GlobFails(t) \/ HasPath(t)
  \/ \E d \in Devs : DeviceStep(t, d)

Application(t) ==
  \/ ocxl_afu_open_specific(t) \/ ocxl_afu_open_from_dev(t)
  \/ ocxl_afu_close(t) \/ GivesUp(t) \/ SetsMessages(t)

ProcessWide ==
  /\ (\E sources \in Asked : EnableErrors(sources)) \/ EnableTracing
  /\ UNCHANGED <<inuse, searchVars>>

System == \E d \in Devs, o \in Others : OtherOpens(o, d) \/ OtherCloses(o, d)

Next == (\E t \in Threads : CallStep(t) \/ Application(t)) \/ ProcessWide \/ System

Spec == Init /\ [][Next]_vars

\* A call that has begun goes on; nobody need open, close, plug or set anything.
FairSpec == Spec /\ \A t \in Threads : WF_vars(CallStep(t))

-------------------------------------------------------------------------------
TypeOK ==
  /\ MessagesTypeOK
  /\ pc \in [Threads -> Calling \cup {"idle", "returned"}]
  /\ inuse \in [Devs -> SUBSET (Threads \cup Others)]
  /\ request \in [Threads -> Requests \cup {NoRequest}]
  /\ found \in [Threads -> SUBSET Devs]
  /\ left \in [Threads -> SUBSET Devs]
  /\ ret \in [Threads -> Results]
  /\ afu \in [Threads -> Devs \cup {OCXL_INVALID_AFU}]
  /\ refused \in [Threads -> SUBSET Devs]

\* "Force AFU interaction trace messages to be emitted for all AFUs unless
\* explicitly disabled", and the same for errors: every handle starts with
\* what the environment says, also when several threads open their first AFU
\* at once and one of them is still reading the environment; and only a call
\* on the handle changes that.
HandlesFollowEnvironment ==
  \A t \in Threads : IsOpen(t) =>
    /\ afu_verbose_errors[t] =
         IF told[t] = NoCall THEN env.verbose_errors_all ELSE OCXL_ERRORS \in told[t]
    /\ afu_tracing[t] =
         IF told[t] = NoCall THEN env.trace_all ELSE OCXL_TRACING \in told[t]
    /\ afu_sysfs_path[t] = env.syspath

\* ocxl_enable_messages() has the last word from the first open call on: the
\* environment, which libocxl_init() applies, is never applied again.
LastWordStands ==
  asked # NoCall =>
    /\ verbose_errors = (OCXL_ERRORS \in asked)
    /\ enabling = NoCall => tracing = (OCXL_TRACING \in asked)

\* "Force verbose errors to be emitted for any failed LibOCXL calls": an open
\* call that fails has handed the very error it returns to the handler, as
\* long as errors were on since it had passed the initialisation.
FailuresAreSaid ==
  \A t \in Threads :
    pc[t] = "returned" /\ ret[t] # "OCXL_OK" /\ ~quiet[t] =>
      said[t] = ret[t]

\* A context of a device is held for exactly the handles that are open on it
\* and the calls that have got as far as opening it: a search that goes on, or
\* gives up, leaves no context taken on the devices it has tried.
ContextsAreAccounted ==
  \A t \in Threads, d \in Devs :
    t \in inuse[d] <=> \/ IsOpen(t) /\ afu[t] = d
                       \/ pc[t] = "finish" /\ Current(t, d)

\* "the first AFU found with available contexts will be used": a search that
\* succeeds has a device that was asked for, and each one listed before it had
\* no context left when it was tried; a search that reports
\* OCXL_NO_MORE_CONTEXTS was turned away by every device listed.
FirstWithContexts ==
  \A t \in Threads :
    pc[t] = "returned" /\ request[t] # NoRequest =>
      /\ ret[t] = "OCXL_OK" <=> afu[t] # OCXL_INVALID_AFU
      /\ ret[t] = "OCXL_OK" => /\ Matches(request[t], afu[t])
                               /\ refused[t] = {d \in found[t] : d < afu[t]}
      /\ ret[t] = "OCXL_NO_MORE_CONTEXTS" => refused[t] = found[t] /\ found[t] # {}

\* Every open call returns: no thread waits for ever for the initialisation,
\* and no device is tried over and over.
CallsReturn == \A t \in Threads : pc[t] \in Calling ~> pc[t] = "returned"

\* "OCXL_NO_DEV if no valid device was found": a search that ends so has tried
\* every device that it had listed, up to the last.
NoDevAfterAll ==
  \A t \in Threads :
    pc[t] = "returned" /\ ret[t] = "OCXL_NO_DEV" => \A d \in left[t] : Current(t, d)

===============================================================================
