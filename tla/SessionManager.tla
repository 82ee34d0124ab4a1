--------------------------- MODULE SessionManager ---------------------------
(***************************************************************************)
(* The life cycle of the library and of its sessions: GEInitialize,        *)
(* GEFinalize and Session (ge/client/ge_api.cc), GELib (ge/init/gelib.cc), *)
(* SessionManager and InnerSession (ge/session).  Every GEInitialize makes *)
(* a new GELib with a session manager of its own; session ids come from    *)
(* one static counter.  A client is a thread with at most one Session      *)
(* object; clients call in any order and at any time, except that two      *)
(* calls of GEInitialize do not overlap.                                   *)
(*                                                                         *)
(* Four locks order the steps: g_ge_release_mutex (GEFinalize, ~Session),  *)
(* the session manager's mutex_, the inner session's resource_mutex_, and  *)
(* the static mutex_ of inner_session.cc that RunGraph only tries.  What   *)
(* takes place within one uncontended critical section is one step.        *)
(***************************************************************************)
EXTENDS Naturals, FiniteSetsExt

CONSTANTS Client,        \* threads that use the library
          NoClient,      \* no holder of a mutex
          MaxCalls,      \* calls of the interface
          MaxLibs,       \* libraries made by GEInitialize
          MaxFaults      \* failures of the device, a plug-in or a graph manager

ASSUME SessionAssumption == /\ MaxLibs \in Nat /\ MaxCalls \in Nat /\ MaxFaults \in Nat
                            /\ NoClient \notin Client

VARIABLES g_ge_initialized,
          instancePtr_,        \* the current library, 0 for nullptr
          gelib,               \* gelib[i]: made by GEInitialize, init_flag_, and of its session manager
                               \* init_flag_ (sm_init), mutex_ and the map's keys
          session_id,          \* the counter of GetNextSessionId
          session,             \* session[s], an InnerSession: its graph manager is
                               \* alive, init_flag_, resource_mutex_, and (history)
                               \* the client whose constructor made it and its library
          rt_contexts_,        \* the sessions with a context in RtContextUtil
          release_mutex, run_mutex,
          client,              \* client[c]: pc, Session object and sessionId_, the
                               \* library and session its call holds, and ret
          calls, faults,
          failed_finalize,     \* history: a GEFinalize has failed
          overtaken            \* history: a GELib was finalized before the
                               \* GEInitialize that made it had returned

vars == <<g_ge_initialized, instancePtr_, gelib, session_id, session, rt_contexts_, release_mutex,
          run_mutex, client, calls, faults, failed_finalize, overtaken>>

Libs == 1..MaxLibs
Ids == 0..(MaxCalls - 1)

\* ------------------------------------------------------------------------
\* Records

NewLib == [made |-> FALSE, init_flag_ |-> FALSE, sm_init |-> FALSE, map |-> {}, mutex_ |-> NoClient]

NewSession == [alive |-> FALSE, init_flag_ |-> FALSE, resource_mutex_ |-> NoClient,
               owner |-> NoClient, lib |-> 0]

Init == /\ g_ge_initialized = FALSE /\ instancePtr_ = 0
        /\ gelib = [i \in Libs |-> NewLib]
        /\ session_id = 0 /\ session = [s \in Ids |-> NewSession]
        /\ rt_contexts_ = {}
        /\ release_mutex = NoClient /\ run_mutex = NoClient
        /\ client = [c \in Client |-> [pc |-> "idle", object |-> "none", sessionId_ |-> 0,
                                       instance_ptr |-> 0, innerSession |-> 0, ret |-> "SUCCESS"]]
        /\ calls = 0 /\ faults = 0
        /\ failed_finalize = FALSE /\ overtaken = FALSE

At(c, p) == client[c].pc = p
Go(c, p) == client' = [client EXCEPT ![c].pc = p]
GoRet(c, p, r) == client' = [client EXCEPT ![c].pc = p, ![c].ret = r]
Returns(c, r) == GoRet(c, "idle", r)
Library(c) == gelib[client[c].instance_ptr]

\* A call starts.
Call(c) == At(c, "idle") /\ calls < MaxCalls /\ calls' = calls + 1

\* A step that fails, if the fault model allows one more failure.
Fault == faults < MaxFaults /\ faults' = faults + 1

\* GELib::GetInstance() and InitFlag(), the test every call begins with.
Initialized == instancePtr_ # 0 /\ gelib[instancePtr_].init_flag_

\* The library can make sessions.
Ready == Initialized /\ gelib[instancePtr_].sm_init

\* ------------------------------------------------------------------------
\* GEInitialize

Unmade == {i \in Libs : ~gelib[i].made}

\* instancePtr_ is set before the library is ready.
GEInitialize(c) ==
  /\ Call(c) /\ (\A d \in Client : client[d].pc \notin {"inner_init", "init_end"})
  /\ \/ /\ g_ge_initialized /\ Returns(c, "SUCCESS")
        /\ UNCHANGED <<instancePtr_, gelib, faults>>
     \/ /\ ~g_ge_initialized /\ Fault /\ Returns(c, "FAILED")
        /\ UNCHANGED <<instancePtr_, gelib>>
     \/ /\ ~g_ge_initialized /\ Unmade # {}
        /\ instancePtr_' = Min(Unmade)
        /\ gelib' = [gelib EXCEPT ![Min(Unmade)].made = TRUE]
        /\ Go(c, "inner_init") /\ UNCHANGED faults
  /\ UNCHANGED <<g_ge_initialized, session_id, session, rt_contexts_, release_mutex,
                 run_mutex, failed_finalize, overtaken>>

\* A mutant: every library counts its sessions from 0.
BadInnerInitialize(c) ==
  /\ At(c, "inner_init")
  /\ \/ /\ gelib' = [gelib EXCEPT ![instancePtr_].init_flag_ = TRUE,
                                  ![instancePtr_].sm_init = TRUE]
        /\ session_id' = 0
        /\ Go(c, "init_end") /\ UNCHANGED <<instancePtr_, faults>>
     \/ /\ Fault /\ instancePtr_' \in {instancePtr_, 0}
        /\ Returns(c, "FAILED") /\ UNCHANGED <<gelib, session_id>>
  /\ UNCHANGED <<g_ge_initialized, session, rt_contexts_, release_mutex, run_mutex,
                 calls, failed_finalize, overtaken>>

\* A failure before InnerInitialize leaves the pointer, one inside rolls back.
InnerInitialize(c) ==
  /\ At(c, "inner_init")
  /\ \/ /\ gelib' = [gelib EXCEPT ![instancePtr_].init_flag_ = TRUE,
                                  ![instancePtr_].sm_init = TRUE]
        /\ Go(c, "init_end") /\ UNCHANGED <<instancePtr_, faults>>
     \/ /\ Fault /\ instancePtr_' \in {instancePtr_, 0}
        /\ Returns(c, "FAILED") /\ UNCHANGED gelib
  /\ UNCHANGED <<g_ge_initialized, session_id, session, rt_contexts_, release_mutex, run_mutex,
                 calls, failed_finalize, overtaken>>

InitEnd(c) ==
  /\ At(c, "init_end") /\ g_ge_initialized' = TRUE /\ Returns(c, "SUCCESS")
  /\ UNCHANGED <<instancePtr_, gelib, session_id, session, rt_contexts_, release_mutex, run_mutex,
                 calls, faults, failed_finalize, overtaken>>

\* ------------------------------------------------------------------------
\* InnerSession::Finalize, called by SessionManager::Finalize and by
\* DestroySession.

Running(s) == \E d \in Client : At(d, "running") /\ client[d].innerSession = s

\* Takes resource_mutex_ and finalizes the graph manager ...
FinalizeSession(c, s) ==
  /\ session[s].resource_mutex_ = NoClient
  /\ session' = [session EXCEPT ![s].alive = FALSE, ![s].resource_mutex_ = c]

\* ... and then clears init_flag_, whatever the graph manager reported.
SessionFinalized(s) ==
  session' = [session EXCEPT ![s].init_flag_ = FALSE, ![s].resource_mutex_ = NoClient]

\* ------------------------------------------------------------------------
\* GEFinalize

GEFinalize(c) ==
  /\ Call(c)
  /\ IF g_ge_initialized THEN Go(c, "fin_lock") ELSE Returns(c, "SUCCESS")
  /\ UNCHANGED <<g_ge_initialized, instancePtr_, gelib, session_id, session, rt_contexts_,
                 release_mutex, run_mutex, faults, failed_finalize, overtaken>>

\* Under g_ge_release_mutex: GELib::Finalize begins, up to the session
\* manager's mutex_ (a session manager that is not initialized is skipped).
FinLock(c) ==
  /\ At(c, "fin_lock") /\ release_mutex = NoClient /\ release_mutex' = c
  /\ \/ /\ ~Initialized /\ GoRet(c, "fin_end", "NOT_INITIALIZED")
        /\ UNCHANGED <<gelib, faults>>
     \/ /\ Initialized /\ Fault /\ GoRet(c, "fin_end", "FAILED")
        /\ UNCHANGED gelib
     \/ /\ Initialized /\ gelib[instancePtr_].mutex_ = NoClient
        /\ client' = [client EXCEPT ![c].instance_ptr = instancePtr_, ![c].ret = "SUCCESS",
                        ![c].pc = IF gelib[instancePtr_].sm_init THEN "sessions" ELSE "lib_end"]
        /\ gelib' = [gelib EXCEPT ![instancePtr_].mutex_ =
                        IF gelib[instancePtr_].sm_init THEN c ELSE @]
        /\ UNCHANGED faults
  /\ UNCHANGED <<g_ge_initialized, instancePtr_, session_id, session, rt_contexts_, run_mutex,
                 calls, failed_finalize, overtaken>>

\* The loop of SessionManager::Finalize, one session at a time in the order
\* of their ids; then the map is cleared.
Open(c) == {s \in Library(c).map : session[s].init_flag_}

FinSessions(c) ==
  /\ At(c, "sessions")
  /\ \/ /\ Open(c) # {} /\ FinalizeSession(c, Min(Open(c)))
        /\ client' = [client EXCEPT ![c].innerSession = Min(Open(c)), ![c].pc = "session"]
        /\ UNCHANGED gelib
     \/ /\ Open(c) = {} /\ Go(c, "lib_end")
        /\ gelib' = [gelib EXCEPT ![client[c].instance_ptr].map = {},
                                  ![client[c].instance_ptr].sm_init = FALSE,
                                  ![client[c].instance_ptr].mutex_ = NoClient]
        /\ UNCHANGED session
  /\ UNCHANGED <<g_ge_initialized, instancePtr_, session_id, rt_contexts_, release_mutex,
                 run_mutex, calls, faults, failed_finalize, overtaken>>

FinSession(c) ==
  /\ At(c, "session") /\ SessionFinalized(client[c].innerSession) /\ Go(c, "sessions")
  /\ UNCHANGED <<g_ge_initialized, instancePtr_, gelib, session_id, rt_contexts_, release_mutex,
                 run_mutex, calls, faults, failed_finalize, overtaken>>

\* The rest of GELib::Finalize.  A module that fails is only reported; a
\* device that cannot be reset keeps the library as it is.
LibEnd(c) ==
  /\ At(c, "lib_end")
  /\ \/ /\ instancePtr_' = 0
        /\ gelib' = [gelib EXCEPT ![client[c].instance_ptr].init_flag_ = FALSE]
        /\ \/ Go(c, "fin_end") /\ UNCHANGED faults
           \/ Fault /\ GoRet(c, "fin_end", "FAILED")
     \/ Fault /\ GoRet(c, "fin_end", "FAILED") /\ UNCHANGED <<instancePtr_, gelib>>
  /\ overtaken' = (overtaken \/ \E d \in Client : At(d, "init_end"))
  /\ UNCHANGED <<g_ge_initialized, session_id, session, rt_contexts_, release_mutex, run_mutex,
                 calls, failed_finalize>>

\* The plug-in manager's Finalize may fail too.  Only a GEFinalize without
\* any failure destroys the contexts and resets g_ge_initialized.
FinEnd(c) ==
  /\ At(c, "fin_end") /\ release_mutex' = NoClient
  /\ \E ret \in {client[c].ret, "FAILED"} :
       /\ IF ret = client[c].ret THEN UNCHANGED faults ELSE Fault
       /\ Returns(c, ret)
       /\ IF g_ge_initialized /\ ret = "SUCCESS"
          THEN rt_contexts_' = {} /\ g_ge_initialized' = FALSE
          ELSE UNCHANGED <<rt_contexts_, g_ge_initialized>>
       /\ failed_finalize' = (failed_finalize \/ (ret = "FAILED" /\ ~Ready))
  /\ UNCHANGED <<instancePtr_, gelib, session_id, session, run_mutex, calls, overtaken>>

\* ------------------------------------------------------------------------
\* Session::Session and CreateSession

\* Whatever fails, the object exists afterwards and its sessionId_ is 0.
\* g_ge_initialized is read without a lock ...
Construct(c) ==
  /\ Call(c) /\ client[c].object = "none"
  /\ client' = [client EXCEPT ![c].object = "failed", ![c].sessionId_ = 0,
                  ![c].pc = IF g_ge_initialized THEN "ctor" ELSE "idle"]
  /\ UNCHANGED <<g_ge_initialized, instancePtr_, gelib, session_id, session, rt_contexts_,
                 release_mutex, run_mutex, faults, failed_finalize, overtaken>>

\* ... and the library after it: other clients may have finalized the one
\* that was announced and be about to announce the next.
ConstructIn(c) ==
  /\ At(c, "ctor")
  /\ client' = [client EXCEPT ![c].instance_ptr = instancePtr_,
                  ![c].pc = IF Initialized THEN "create" ELSE "idle"]
  /\ UNCHANGED <<g_ge_initialized, instancePtr_, gelib, session_id, session, rt_contexts_,
                 release_mutex, run_mutex, calls, faults, failed_finalize, overtaken>>

\* CreateSession's own test of init_flag_, without the lock.
CreateSession(c) ==
  /\ At(c, "create")
  /\ IF Library(c).sm_init THEN Go(c, "next_id") ELSE Returns(c, "FAILED")
  /\ UNCHANGED <<g_ge_initialized, instancePtr_, gelib, session_id, session, rt_contexts_,
                 release_mutex, run_mutex, calls, faults, failed_finalize, overtaken>>

\* A mutant: relies on CreateSession's test.
BadGetNextSessionId(c) == session_id

\* GetNextSessionId: tests init_flag_ again, now with the lock.
GetNextSessionId(c) == IF Library(c).sm_init THEN session_id ELSE MaxCalls

Created(c) == [alive |-> TRUE, init_flag_ |-> TRUE, resource_mutex_ |-> NoClient,
                  owner |-> c, lib |-> client[c].instance_ptr]

\* Under mutex_: a session that cannot be initialized has used up an id; one
\* whose context cannot be made stays in the map, but the object is told of
\* a failure.
CreateSessionLocked(c) ==
  /\ At(c, "next_id") /\ Library(c).mutex_ = NoClient
  /\ LET id == GetNextSessionId(c) IN
     \/ /\ id \notin Ids /\ Returns(c, "FAILED")
        /\ UNCHANGED <<gelib, session_id, session, rt_contexts_, faults>>
     \/ /\ id \in Ids /\ Fault /\ Returns(c, "FAILED")
        /\ session_id' = id + 1 /\ UNCHANGED <<gelib, session, rt_contexts_>>
     \/ /\ id \in Ids /\ session_id' = id + 1
        /\ session' = [session EXCEPT ![id] = Created(c)]
        /\ gelib' = [gelib EXCEPT ![client[c].instance_ptr].map = @ \cup {id}]
        /\ \/ /\ rt_contexts_' = rt_contexts_ \cup {id}
              /\ client' = [client EXCEPT ![c].pc = "idle", ![c].ret = "SUCCESS",
                              ![c].object = "ok", ![c].sessionId_ = id]
              /\ UNCHANGED faults
           \/ Fault /\ Returns(c, "FAILED") /\ UNCHANGED rt_contexts_
  /\ UNCHANGED <<g_ge_initialized, instancePtr_, release_mutex, run_mutex, calls,
                 failed_finalize, overtaken>>

\* ------------------------------------------------------------------------
\* Session::~Session and DestroySession

Destruct(c) ==
  /\ Call(c) /\ client[c].object # "none"
  /\ client' = [client EXCEPT ![c].pc = IF g_ge_initialized THEN "dtor_lock" ELSE "idle",
                  ![c].object = IF g_ge_initialized THEN @ ELSE "none"]
  /\ UNCHANGED <<g_ge_initialized, instancePtr_, gelib, session_id, session, rt_contexts_,
                 release_mutex, run_mutex, faults, failed_finalize, overtaken>>

\* Under g_ge_release_mutex.
DtorLock(c) ==
  /\ At(c, "dtor_lock") /\ release_mutex = NoClient
  /\ IF Initialized
     THEN /\ release_mutex' = c
          /\ client' = [client EXCEPT ![c].pc = "destroy", ![c].instance_ptr = instancePtr_]
     ELSE /\ client' = [client EXCEPT ![c].pc = "idle", ![c].object = "none"]
          /\ UNCHANGED release_mutex
  /\ UNCHANGED <<g_ge_initialized, instancePtr_, gelib, session_id, session, rt_contexts_,
                 run_mutex, calls, faults, failed_finalize, overtaken>>

\* DestroySession looks the session up with mutex_ held and destroys its
\* contexts before it waits for resource_mutex_.
DestroySession(c) ==
  /\ At(c, "destroy") /\ Library(c).mutex_ = NoClient
  /\ IF Library(c).sm_init /\ client[c].sessionId_ \in Library(c).map
     THEN /\ client' = [client EXCEPT ![c].pc = "dtor", ![c].innerSession = client[c].sessionId_]
          /\ gelib' = [gelib EXCEPT ![client[c].instance_ptr].mutex_ = c]
          /\ rt_contexts_' = rt_contexts_ \ {client[c].sessionId_}
          /\ UNCHANGED release_mutex
     ELSE /\ client' = [client EXCEPT ![c].pc = "idle", ![c].object = "none", ![c].ret = "FAILED"]
          /\ release_mutex' = NoClient /\ UNCHANGED <<gelib, rt_contexts_>>
  /\ UNCHANGED <<g_ge_initialized, instancePtr_, session_id, session, run_mutex, calls, faults,
                 failed_finalize, overtaken>>

DtorFinalize(c) ==
  /\ At(c, "dtor") /\ FinalizeSession(c, client[c].innerSession) /\ Go(c, "dtor_end")
  /\ UNCHANGED <<g_ge_initialized, instancePtr_, gelib, session_id, rt_contexts_, release_mutex,
                 run_mutex, calls, faults, failed_finalize, overtaken>>

\* The session stays in the map when its Finalize failed, as it does when
\* the graph manager finds a graph running.
DtorEnd(c) ==
  LET s == client[c].innerSession
      MayFail == session[s].init_flag_ /\ IF Running(s) THEN UNCHANGED faults ELSE Fault IN
  /\ At(c, "dtor_end") /\ SessionFinalized(s)
  /\ \/ /\ gelib' = [gelib EXCEPT ![client[c].instance_ptr].mutex_ = NoClient,
                                  ![client[c].instance_ptr].map = @ \ {s}]
        /\ client' = [client EXCEPT ![c].pc = "idle", ![c].object = "none", ![c].ret = "SUCCESS"]
        /\ UNCHANGED faults
     \/ /\ MayFail
        /\ gelib' = [gelib EXCEPT ![client[c].instance_ptr].mutex_ = NoClient]
        /\ client' = [client EXCEPT ![c].pc = "idle", ![c].object = "none", ![c].ret = "FAILED"]
  /\ release_mutex' = NoClient
  /\ UNCHANGED <<g_ge_initialized, instancePtr_, session_id, rt_contexts_, run_mutex, calls,
                 failed_finalize, overtaken>>

\* ------------------------------------------------------------------------
\* AddGraph (RemoveGraph has the same steps), RunGraph and BuildGraph

Use(c, op) ==
  /\ Call(c) /\ client[c].object # "none"
  /\ client' = [client EXCEPT ![c].pc = IF Initialized THEN op ELSE "idle",
                  ![c].ret = IF Initialized THEN @ ELSE "FAILED",
                  ![c].instance_ptr = instancePtr_]
  /\ UNCHANGED <<g_ge_initialized, instancePtr_, gelib, session_id, session, rt_contexts_,
                 release_mutex, run_mutex, faults, failed_finalize, overtaken>>

AddGraph(c) == Use(c, "find_add")
RunGraph(c) == Use(c, "find_run")
BuildGraph(c) == Use(c, "find_build")

\* The look-up with mutex_ held, which is given back before the call; a
\* session manager that is not initialized is not waited for.
Found(c, find, call) ==
  /\ At(c, find)
  /\ \/ /\ ~Library(c).sm_init /\ Returns(c, "FAILED")
     \/ /\ Library(c).mutex_ = NoClient
        /\ client' = IF client[c].sessionId_ \in Library(c).map
                     THEN [client EXCEPT ![c].pc = call, ![c].innerSession = client[c].sessionId_]
                     ELSE [client EXCEPT ![c].pc = "idle", ![c].ret = "FAILED"]

Find(c) ==
  /\ \/ Found(c, "find_add", "add") \/ Found(c, "find_run", "run")
     \/ Found(c, "find_build", "building")
  /\ UNCHANGED <<g_ge_initialized, instancePtr_, gelib, session_id, session, rt_contexts_, release_mutex,
                 run_mutex, calls, faults, failed_finalize, overtaken>>

\* A mutant: does not test init_flag_.
BadInnerAddGraph(c) ==
  LET s == client[c].innerSession IN
  /\ At(c, "add") /\ session[s].resource_mutex_ = NoClient
  /\ Go(c, "adding") /\ session' = [session EXCEPT ![s].resource_mutex_ = c]
  /\ UNCHANGED <<g_ge_initialized, instancePtr_, gelib, session_id, rt_contexts_, release_mutex,
                 run_mutex, calls, faults, failed_finalize, overtaken>>

\* InnerSession::AddGraph waits for resource_mutex_ and keeps it.
InnerAddGraph(c) ==
  LET s == client[c].innerSession IN
  /\ At(c, "add") /\ session[s].resource_mutex_ = NoClient
  /\ IF session[s].init_flag_
     THEN Go(c, "adding") /\ session' = [session EXCEPT ![s].resource_mutex_ = c]
     ELSE Returns(c, "FAILED") /\ UNCHANGED session
  /\ UNCHANGED <<g_ge_initialized, instancePtr_, gelib, session_id, rt_contexts_, release_mutex,
                 run_mutex, calls, faults, failed_finalize, overtaken>>

\* A mutant: asks the session manager again with resource_mutex_ held.
BadAddEnd(c) ==
  /\ At(c, "adding") /\ Library(c).mutex_ = NoClient /\ Returns(c, "SUCCESS")
  /\ session' = [session EXCEPT ![client[c].innerSession].resource_mutex_ = NoClient]
  /\ UNCHANGED <<g_ge_initialized, instancePtr_, gelib, session_id, rt_contexts_, release_mutex,
                 run_mutex, calls, faults, failed_finalize, overtaken>>

AddEnd(c) ==
  /\ At(c, "adding") /\ Returns(c, "SUCCESS")
  /\ session' = [session EXCEPT ![client[c].innerSession].resource_mutex_ = NoClient]
  /\ UNCHANGED <<g_ge_initialized, instancePtr_, gelib, session_id, rt_contexts_, release_mutex,
                 run_mutex, calls, faults, failed_finalize, overtaken>>

\* InnerSession::RunGraph only tries the static mutex_; init_flag_ is read
\* without resource_mutex_.
InnerRunGraph(c) ==
  /\ At(c, "run")
  /\ IF run_mutex = NoClient /\ session[client[c].innerSession].init_flag_
     THEN Go(c, "running") /\ run_mutex' = c
     ELSE Returns(c, "FAILED") /\ UNCHANGED run_mutex
  /\ UNCHANGED <<g_ge_initialized, instancePtr_, gelib, session_id, session, rt_contexts_,
                 release_mutex, calls, faults, failed_finalize, overtaken>>

RunEnd(c) ==
  /\ At(c, "running") /\ run_mutex' = NoClient
  /\ \E ret \in {"SUCCESS", "FAILED"} : Returns(c, ret)
  /\ UNCHANGED <<g_ge_initialized, instancePtr_, gelib, session_id, session, rt_contexts_,
                 release_mutex, calls, faults, failed_finalize, overtaken>>

\* InnerSession::BuildGraph goes to the graph manager at once: it reads no
\* init_flag_ and takes no lock of the session.
InnerBuildGraph(c) ==
  /\ At(c, "building")
  /\ \E ret \in {"SUCCESS", "FAILED"} : Returns(c, ret)
  /\ UNCHANGED <<g_ge_initialized, instancePtr_, gelib, session_id, session, rt_contexts_,
                 release_mutex, run_mutex, calls, faults, failed_finalize, overtaken>>

\* ------------------------------------------------------------------------
\* Specification

\* What a call does once it has begun.
Step(c) ==
  \/ InnerInitialize(c) \/ InitEnd(c)
  \/ FinLock(c) \/ FinSessions(c) \/ FinSession(c) \/ LibEnd(c) \/ FinEnd(c)
  \/ ConstructIn(c) \/ CreateSession(c) \/ CreateSessionLocked(c)
  \/ DtorLock(c) \/ DestroySession(c) \/ DtorFinalize(c) \/ DtorEnd(c)
  \/ Find(c) \/ InnerAddGraph(c) \/ AddEnd(c) \/ InnerRunGraph(c) \/ RunEnd(c)
  \/ InnerBuildGraph(c)

Next == \E c \in Client :
          \/ GEInitialize(c) \/ GEFinalize(c)
          \/ Construct(c) \/ Destruct(c) \/ AddGraph(c) \/ RunGraph(c) \/ BuildGraph(c)
          \/ Step(c)

\* Every thread inside a call goes on, a graph manager's RunGraph,
\* AddGraph and BuildGraph end; nobody has to call.
Fairness == \A c \in Client : WF_vars(Step(c))

Spec == Init /\ [][Next]_vars /\ Fairness

\* ------------------------------------------------------------------------
\* Properties

\* Values stay in range, and a lock is held exactly by the call whose place
\* in the code holds it: no path of GEFinalize, ~Session, AddGraph or
\* RunGraph returns with a lock or runs without it.
TypeOK ==
  /\ g_ge_initialized \in BOOLEAN /\ instancePtr_ \in 0..MaxLibs
  /\ rt_contexts_ \subseteq 0..session_id
  /\ \A c \in Client :
       /\ (release_mutex = c) <=> client[c].pc \in {"sessions", "session", "lib_end", "fin_end",
                                                     "destroy", "dtor", "dtor_end"}
       /\ (run_mutex = c) <=> At(c, "running")
       /\ \A i \in Libs : (gelib[i].mutex_ = c) <=>
            client[c].instance_ptr = i /\ client[c].pc \in {"sessions", "session", "dtor", "dtor_end"}
       /\ \A s \in Ids : (session[s].resource_mutex_ = c) <=>
            client[c].innerSession = s /\ client[c].pc \in {"session", "dtor_end", "adding"}

\* The sessions a client's object acts on: to destroy, to add to, to run or to build.
ActsOn(c, s) == client[c].innerSession = s
                /\ client[c].pc \in {"dtor", "dtor_end", "add", "adding", "run", "running",
                                      "building"}

\* A Session object destroys and uses only the session its own constructor
\* made ("update session id if success"; ids are never given twice, not even
\* by a library made after GEFinalize), with one exception: an object whose
\* constructor failed has the id 0 and acts on the first session there was.
ActsOnOwnUnlessFailed ==
  \A c \in Client, s \in Ids :
    ActsOn(c, s) => \/ client[c].object = "ok" /\ session[s].owner = c
                    \/ client[c].object = "failed" /\ s = 0

\* The flags tell the truth (and every variable keeps its range).  Once
\* SessionManager::Finalize is over none of its sessions is left: a constructor
\* that was waiting for mutex_ makes no session any more.  And when no call is
\* under way and g_ge_initialized is set, there is a library with a session
\* manager, unless a GEFinalize failed half-way or overtook a GEInitialize.
FlagsTruthful ==
  /\ TypeOK
  /\ \A i \in Libs : ~gelib[i].sm_init => /\ gelib[i].map = {}
                                          /\ \A s \in Ids : session[s].lib = i => ~session[s].init_flag_
  /\ g_ge_initialized /\ (\A c \in Client : At(c, "idle")) =>
       failed_finalize \/ overtaken \/ Ready

\* A session in use has its context until it is destroyed, AddGraph works on a
\* graph manager that stays alive until it returns (Finalize waits for
\* resource_mutex_), and a GEFinalize that succeeded leaves no context: while
\* g_ge_initialized is false there are contexts only of sessions of the newest
\* library, made (by a constructor that read the flag before the GEFinalize)
\* in the moment before GEInitialize sets it.
SessionsUsable ==
  /\ \A c \in Client : At(c, "adding") => session[client[c].innerSession].alive
  /\ \A c \in Client : LET s == client[c].sessionId_ IN
       client[c].object = "ok" /\ session[s].owner = c /\ session[s].init_flag_ =>
         \/ s \in rt_contexts_
         \/ \E d \in Client : client[d].pc \in {"dtor", "dtor_end"} /\ client[d].innerSession = s
  /\ ~g_ge_initialized => \A s \in rt_contexts_ :
       /\ \E c \in Client : At(c, "init_end")
       /\ \A i \in Libs : gelib[i].made => i <= session[s].lib

\* Every call returns: no two of GEFinalize, ~Session, the constructor,
\* AddGraph, RunGraph and BuildGraph wait for each other's locks.
CallsReturn == \A c \in Client : ~At(c, "idle") ~> At(c, "idle")
=============================================================================
