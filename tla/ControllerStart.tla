-------------------------- MODULE ControllerStart --------------------------
(***************************************************************************)
(* How the controller comes into being: the first REST requests, each in a *)
(* thread of its own, call OPoTController(), whose metaclass Singleton     *)
(* tests, constructs, stores and reads again without its lock.  The        *)
(* constructor starts a thread that serves metrics and then the reports of *)
(* the nodes.  A controller is named by the request that constructs it.    *)
(***************************************************************************)
EXTENDS Naturals, FiniteSets

CONSTANTS Posts,    \* requests that create a path, named like the path
          Gets,     \* requests for a path
          Deletes,  \* requests to delete a path
          None

Requests == Posts \cup Gets \cup Deletes
ASSUME RequestsAssumption == /\ Posts \cap (Gets \cup Deletes) = {}
                             /\ Gets \cap Deletes = {} /\ None \notin Requests

VARIABLES
    pc,         \* the step of each request
    self,       \* the controller OPoTController() returned to it
    on,         \* the path it is about
    looking,    \* a POST has created its path and looks it up
    instances,  \* Singleton._instances[OPoTController]
    built,      \* the controllers that were constructed
    thread,     \* the step of OPoTController.run, by controller
    http,       \* the controller that has the port of the metrics
    paths,      \* OPoTController.paths, by controller
    deleted,    \* history: the paths that were deleted
    raced       \* history: two requests constructed at once

request == <<self, on, looking>>
objects == <<instances, built, raced>>
server == <<thread, http>>
vars == <<pc, request, objects, server, paths, deleted>>

Init == /\ pc = [r \in Requests |-> "idle"]
        /\ self = [r \in Requests |-> None]
        /\ on = [r \in Requests |-> IF r \in Posts THEN r ELSE None]
        /\ looking = [r \in Requests |-> r \notin Posts]
        /\ instances = None /\ built = {} /\ raced = FALSE
        /\ thread = [r \in Requests |-> "none"]
        /\ http = None
        /\ paths = [r \in Requests |-> {}]
        /\ deleted = {}

Step(r, from, to) == pc[r] = from /\ pc' = [pc EXCEPT ![r] = to]

\* A client that asks for a path was told its identifier before.
Request(r, p) ==
    /\ Step(r, "idle", "check")
    /\ r \in Posts \/ pc[p] = "ok"
    /\ on' = [on EXCEPT ![r] = IF r \in Posts THEN r ELSE p]
    /\ UNCHANGED <<self, looking, objects, server, paths, deleted>>

-----------------------------------------------------------------------------
(* Singleton.__call__ and OPoTController.__init__ *)

Constructing == {r \in Requests : pc[r] \in {"build", "store"}}

\* Faulty variant: the instances are not looked at.
CheckNothing(r) ==
    /\ Step(r, "check", "build")
    /\ raced' = (raced \/ Constructing # {})
    /\ UNCHANGED <<request, instances, built, server, paths, deleted>>

CheckInstances(r) ==
    /\ Step(r, "check", IF instances = None THEN "build" ELSE "return")
    /\ raced' = (raced \/ (instances = None /\ Constructing # {}))
    /\ UNCHANGED <<request, instances, built, server, paths, deleted>>

\* Faulty variant: the constructor does not start the thread.
ConstructOnly(r) ==
    /\ Step(r, "build", "store")
    /\ built' = built \cup {r}
    /\ UNCHANGED <<request, instances, raced, server, paths, deleted>>

\* The constructor ends with self.start().
Construct(r) ==
    /\ Step(r, "build", "store")
    /\ built' = built \cup {r}
    /\ thread' = [thread EXCEPT ![r] = "http"]
    /\ UNCHANGED <<request, instances, raced, http, paths, deleted>>

\* Faulty variant: the new controller is returned and not stored.
StoreNothing(r) ==
    /\ Step(r, "store", "use")
    /\ self' = [self EXCEPT ![r] = r]
    /\ UNCHANGED <<on, looking, objects, server, paths, deleted>>

StoreInstance(r) ==
    /\ Step(r, "store", "return")
    /\ instances' = r
    /\ UNCHANGED <<request, built, raced, server, paths, deleted>>

\* return cls._instances[cls]
ReturnInstance(r) ==
    /\ Step(r, "return", "use")
    /\ self' = [self EXCEPT ![r] = instances]
    /\ UNCHANGED <<on, looking, objects, server, paths, deleted>>

-----------------------------------------------------------------------------
(* The endpoints *)

\* create_path, which then calls get_path_info: OPoTController() once more.
CreatePath(r) ==
    /\ ~looking[r]
    /\ Step(r, "use", "check")
    /\ paths' = [paths EXCEPT ![self[r]] = @ \cup {r}]
    /\ looking' = [looking EXCEPT ![r] = TRUE]
    /\ UNCHANGED <<self, on, objects, server, deleted>>

\* A path the controller does not know is answered 404.
Found(r) == on[r] \in paths[self[r]]

GetPathInfo(r) ==
    /\ r \notin Deletes /\ looking[r]
    /\ Step(r, "use", IF Found(r) THEN "ok" ELSE "notFound")
    /\ UNCHANGED <<request, objects, server, paths, deleted>>

DestroyPath(r) ==
    /\ r \in Deletes
    /\ Step(r, "use", IF Found(r) THEN "ok" ELSE "notFound")
    /\ paths' = [paths EXCEPT ![self[r]] = @ \ {on[r]}]
    /\ deleted' = IF Found(r) THEN deleted \cup {on[r]} ELSE deleted
    /\ UNCHANGED <<request, objects, server>>

Serve(r) == \/ CheckInstances(r) \/ Construct(r) \/ StoreInstance(r)
            \/ ReturnInstance(r) \/ CreatePath(r) \/ GetPathInfo(r)
            \/ DestroyPath(r)

-----------------------------------------------------------------------------
(* OPoTController.run *)

\* start_http_server raises in the second controller, whose thread ends.
StartHttpServer(o) ==
    /\ thread[o] = "http"
    /\ thread' = [thread EXCEPT ![o] = IF http = None THEN "grpc" ELSE "ended"]
    /\ http' = IF http = None THEN o ELSE http
    /\ UNCHANGED <<pc, request, objects, paths, deleted>>

\* The log server shares the paths of its controller.
ServeLogServer(o) ==
    /\ thread[o] = "grpc"
    /\ thread' = [thread EXCEPT ![o] = "serving"]
    /\ UNCHANGED <<pc, request, objects, http, paths, deleted>>

Run(o) == StartHttpServer(o) \/ ServeLogServer(o)

Next == \/ \E r \in Requests, p \in Posts : Request(r, p)
        \/ \E r \in Requests : Serve(r) \/ Run(r)

Spec == Init /\ [][Next]_vars

\* Nothing in a start blocks, and the interpreter runs every thread.
FairSpec == Spec /\ \A r \in Requests : WF_vars(Serve(r)) /\ WF_vars(Run(r))

-----------------------------------------------------------------------------
(* Properties *)

(***************************************************************************)
(* A path is found as long as nobody deleted it, by the POST that created  *)
(* it and by every later request, unless two first requests constructed a  *)
(* controller each.                                                        *)
(***************************************************************************)
PathsAreFound ==
    \A r \in Requests : pc[r] = "notFound" => raced \/ on[r] \in deleted

(***************************************************************************)
(* The reports of a path reach it: no matter how many controllers there    *)
(* are, at most one serves reports, and unless two were constructed at     *)
(* once it is the one that knows all the paths.                            *)
(***************************************************************************)
ReportsFindTheirPath ==
    \A o, q \in built :
        thread[o] = "serving" =>
            /\ thread[q] = "serving" => q = o
            /\ paths[q] # {} => raced \/ q = o

\* A controller is stored and nobody is about to store another one.
Settled == instances # None /\ Constructing = {}

(***************************************************************************)
(* After the races of the start are over there is one controller for good: *)
(* no later request constructs another or is given another.                *)
(***************************************************************************)
OneControllerInTheEnd ==
    [][Settled => Settled' /\ instances' = instances]_vars

(***************************************************************************)
(* Once a controller is constructed some controller comes to serve the     *)
(* reports, although all but one fail on the port of the metrics.          *)
(***************************************************************************)
LogServerComesUp == built # {} ~> \E o \in built : thread[o] = "serving"
=============================================================================
