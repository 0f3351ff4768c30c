------------------------------- MODULE Messages -------------------------------
(***************************************************************************)
(* The process-wide state of libocxl: libocxl_init(), which the first open *)
(* call of the process runs under a mutex and which reads the environment, *)
(* the flags that decide which messages are emitted, and the members of an *)
(* AFU handle that are copied from them.  ocxl_enable_messages() takes no  *)
(* lock, so its two assignments fall anywhere between the others.          *)
(***************************************************************************)
EXTENDS Naturals

CONSTANTS
  Threads,          \* threads of the process that open AFUs, a handle each
  NoThread,         \* the owner of a mutex that nobody holds
  Environments,     \* bound: which of the environment variables are set
  Asked,            \* bound: the sources that the enable calls are given
  MaxEnables        \* bound: calls of ocxl_enable_messages()

ASSUME NoThreadAssumption == NoThread \notin Threads

OCXL_ERRORS  == "errors"
OCXL_TRACING == "tracing"
Sources      == SUBSET {OCXL_ERRORS, OCXL_TRACING}

\* In place of a set of sources.
NoCall == {"no call"}

ASSUME MessagesAssumption ==
  /\ Environments \subseteq [trace_all : BOOLEAN, verbose_errors_all : BOOLEAN, syspath : BOOLEAN]
  /\ Asked \subseteq Sources
  /\ MaxEnables \in Nat

Errors   == {"OCXL_NO_MEM", "OCXL_NO_DEV", "OCXL_INTERNAL_ERROR", "OCXL_NO_MORE_CONTEXTS"}
Results  == Errors \cup {"OCXL_OK"}

Silence == "OCXL_OK"

VARIABLES
  env,                                    \* which variables are set: constant
  libocxl_inited, libocxl_inited_mutex,
  verbose_errors, verbose_errors_all, tracing, tracing_all,
  sys_path,                               \* TRUE when LIBOCXL_SYSPATH overrides it
  enabling, enables,                      \* the call of ocxl_enable_messages() under way,
                                          \* and how many there have been
  afu_verbose_errors, afu_tracing,
  afu_sysfs_path,                         \* members of each thread's handle
  pc,                                     \* where each thread's open call stands
  asked,                                  \* history: what the last ocxl_enable_messages()
                                          \* that began after initialisation asked for
  told,                                   \* history: the same for each handle
  quiet, said                             \* history, of each open call: errors were off at
                                          \* some time; the last error handed to the handler

flagVars   == <<verbose_errors, verbose_errors_all, tracing, tracing_all, sys_path>>
initVars   == <<env, libocxl_inited, libocxl_inited_mutex, flagVars>>
enableVars == <<enabling, enables, asked>>
memberVars == <<afu_verbose_errors, afu_tracing, afu_sysfs_path, told>>
reportVars == <<quiet, said>>
messageVars == <<initVars, enableVars, memberVars, reportVars>>

Goto(t, label) == pc' = [pc EXCEPT ![t] = label]

-------------------------------------------------------------------------------
(* libocxl_init(), from pc "init" to pc "inited".                           *)

\* The flag is set: nothing is done.  Whether errors are emitted from here on
\* is what counts for the call.
AlreadyInited(t) ==
  /\ pc[t] = "init"
  /\ libocxl_inited_mutex = NoThread
  /\ libocxl_inited
  /\ quiet' = [quiet EXCEPT ![t] = ~verbose_errors]
  /\ Goto(t, "inited")
  /\ UNCHANGED <<initVars, enableVars, memberVars, said>>

\* Mutant of InitLock: the flag is set before the work is done and looked at
\* without the mutex.
InitLockEarlyFlag(t) ==
  /\ pc[t] = "init"
  /\ ~libocxl_inited
  /\ libocxl_inited' = TRUE
  /\ Goto(t, "trace_all")
  /\ UNCHANGED <<env, libocxl_inited_mutex, flagVars, enableVars, memberVars, reportVars>>

\* Mutant of InitLock: the flag is not looked at.
InitLockAgain(t) ==
  /\ pc[t] = "init"
  /\ libocxl_inited_mutex = NoThread
  /\ libocxl_inited_mutex' = t
  /\ Goto(t, "trace_all")
  /\ UNCHANGED <<env, libocxl_inited, flagVars, enableVars, memberVars, reportVars>>

InitLock(t) ==
  /\ pc[t] = "init"
  /\ libocxl_inited_mutex = NoThread
  /\ ~libocxl_inited
  /\ libocxl_inited_mutex' = t
  /\ Goto(t, "trace_all")
  /\ UNCHANGED <<env, libocxl_inited, flagVars, enableVars, memberVars, reportVars>>

InitTraceAll(t) ==
  /\ pc[t] = "trace_all"
  /\ tracing_all' = (tracing_all \/ env.trace_all)
  /\ tracing' = (tracing \/ env.trace_all)
  /\ Goto(t, "errors_all")
  /\ UNCHANGED <<env, libocxl_inited, libocxl_inited_mutex, verbose_errors, verbose_errors_all,
                 sys_path, enableVars, memberVars, reportVars>>

InitErrorsAll(t) ==
  /\ pc[t] = "errors_all"
  /\ verbose_errors_all' = (verbose_errors_all \/ env.verbose_errors_all)
  /\ verbose_errors' = (verbose_errors \/ env.verbose_errors_all)
  /\ Goto(t, "sys_path")
  /\ UNCHANGED <<env, libocxl_inited, libocxl_inited_mutex, tracing, tracing_all,
                 sys_path, enableVars, memberVars, reportVars>>

\* Mutant of InitDone: the function returns without unlocking the mutex.
InitDoneLocked(t) ==
  /\ pc[t] = "sys_path"
  /\ sys_path' = (sys_path \/ env.syspath)
  /\ libocxl_inited' = TRUE
  /\ quiet' = [quiet EXCEPT ![t] = ~verbose_errors]
  /\ Goto(t, "inited")
  /\ UNCHANGED <<env, libocxl_inited_mutex, verbose_errors, verbose_errors_all, tracing,
                 tracing_all, enableVars, memberVars, said>>

InitDone(t) ==
  /\ pc[t] = "sys_path"
  /\ sys_path' = (sys_path \/ env.syspath)
  /\ libocxl_inited' = TRUE
  /\ libocxl_inited_mutex' = NoThread
  /\ quiet' = [quiet EXCEPT ![t] = ~verbose_errors]
  /\ Goto(t, "inited")
  /\ UNCHANGED <<env, verbose_errors, verbose_errors_all, tracing, tracing_all,
                 enableVars, memberVars, said>>

libocxl_init(t) ==
  AlreadyInited(t) \/ InitLock(t) \/ InitTraceAll(t) \/ InitErrorsAll(t) \/ InitDone(t)

-------------------------------------------------------------------------------
(* What the application sets.                                               *)

\* ocxl_enable_messages(): verbose_errors, then tracing.
EnableErrors(sources) ==
  /\ enabling = NoCall
  /\ enables < MaxEnables
  /\ enables' = enables + 1
  /\ enabling' = sources
  /\ verbose_errors' = (OCXL_ERRORS \in sources)
  /\ quiet' = [t \in Threads |-> quiet[t] \/ OCXL_ERRORS \notin sources]
  /\ asked' = IF libocxl_inited THEN sources ELSE NoCall
  /\ UNCHANGED <<pc, env, libocxl_inited, libocxl_inited_mutex, verbose_errors_all, tracing,
                 tracing_all, sys_path, memberVars, said>>

EnableTracing ==
  /\ enabling # NoCall
  /\ enabling' = NoCall
  /\ tracing' = (OCXL_TRACING \in enabling)
  /\ UNCHANGED <<pc, env, libocxl_inited, libocxl_inited_mutex, verbose_errors,
                 verbose_errors_all, tracing_all, sys_path, enables, asked,
                 memberVars, reportVars>>

\* ocxl_afu_enable_messages() on the handle of thread t.
ocxl_afu_enable_messages(t, sources) ==
  /\ afu_verbose_errors' = [afu_verbose_errors EXCEPT ![t] = (OCXL_ERRORS \in sources)]
  /\ afu_tracing' = [afu_tracing EXCEPT ![t] = (OCXL_TRACING \in sources)]
  /\ told' = [told EXCEPT ![t] = sources]
  /\ UNCHANGED <<pc, initVars, enableVars, afu_sysfs_path, reportVars>>

-------------------------------------------------------------------------------
(* A handle, and what the open calls say.                                   *)

\* The members of a new handle that afu_init() and populate_metadata() copy
\* from the process-wide state.
afu_init(t) ==
  /\ afu_verbose_errors' = [afu_verbose_errors EXCEPT ![t] = verbose_errors_all]
  /\ afu_tracing' = [afu_tracing EXCEPT ![t] = tracing_all]
  /\ afu_sysfs_path' = [afu_sysfs_path EXCEPT ![t] = sys_path]
  /\ told' = [told EXCEPT ![t] = NoCall]

\* The handle is freed, or the application has looked at the result.
Forget(t) ==
  /\ afu_verbose_errors' = [afu_verbose_errors EXCEPT ![t] = FALSE]
  /\ afu_tracing' = [afu_tracing EXCEPT ![t] = FALSE]
  /\ afu_sysfs_path' = [afu_sysfs_path EXCEPT ![t] = FALSE]
  /\ told' = [told EXCEPT ![t] = NoCall]
  /\ quiet' = [quiet EXCEPT ![t] = TRUE]
  /\ said' = [said EXCEPT ![t] = Silence]

\* Mutant of errmsg: only what the handle of an AFU has to say is emitted.
errmsg_afu_only(t, error) == said' = [said EXCEPT ![t] = Silence]

\* errmsg() without an AFU, as all the open calls use it last.
errmsg(t, error) ==
  said' = [said EXCEPT ![t] = IF verbose_errors THEN error ELSE @]

-------------------------------------------------------------------------------
MessagesInit ==
  /\ env \in Environments
  /\ libocxl_inited = FALSE
  /\ libocxl_inited_mutex = NoThread
  /\ verbose_errors = FALSE /\ verbose_errors_all = FALSE
  /\ tracing = FALSE /\ tracing_all = FALSE
  /\ sys_path = FALSE
  /\ enabling = NoCall /\ enables = 0 /\ asked = NoCall
  /\ afu_verbose_errors = [t \in Threads |-> FALSE]
  /\ afu_tracing = [t \in Threads |-> FALSE]
  /\ afu_sysfs_path = [t \in Threads |-> FALSE]
  /\ told = [t \in Threads |-> NoCall]
  /\ quiet = [t \in Threads |-> TRUE]
  /\ said = [t \in Threads |-> Silence]

MessagesTypeOK ==
  /\ env \in Environments
  /\ libocxl_inited \in BOOLEAN
  /\ libocxl_inited_mutex \in Threads \cup {NoThread}
  /\ verbose_errors \in BOOLEAN /\ verbose_errors_all \in BOOLEAN
  /\ tracing \in BOOLEAN /\ tracing_all \in BOOLEAN
  /\ sys_path \in BOOLEAN
  /\ enabling \in Sources \cup {NoCall} /\ asked \in Sources \cup {NoCall}
  /\ enables \in 0 .. MaxEnables
  /\ afu_verbose_errors \in [Threads -> BOOLEAN]
  /\ afu_tracing \in [Threads -> BOOLEAN]
  /\ afu_sysfs_path \in [Threads -> BOOLEAN]
  /\ told \in [Threads -> Sources \cup {NoCall}]
  /\ quiet \in [Threads -> BOOLEAN]
  /\ said \in [Threads -> Results]

===============================================================================
