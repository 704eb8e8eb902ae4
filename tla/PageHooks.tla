----------------------------- MODULE PageHooks -----------------------------
(***************************************************************************)
(* What the requests to intercept pages promise, whatever the number of    *)
(* processors: there is one table of intercepted pages, and each request   *)
(* changes it at one instant between its call and its return.              *)
(***************************************************************************)
CONSTANTS
    Clients,    \* threads that send requests
    Pages,      \* guest physical pages
    Hooks,      \* arguments of an interception: the frames of its views
    Null        \* no hook; no request

VARIABLES
    hooks,      \* hooks[p]: how page p is intercepted
    requests    \* requests[cl]: the request of cl, and whether it is in force

absVars == <<hooks, requests>>

AbstractInit ==
    /\ hooks = [p \in Pages |-> Null]
    /\ requests = [cl \in Clients |-> Null]

Call(cl, p, h) ==
    /\ requests[cl] = Null
    /\ requests' = [requests EXCEPT ![cl] = [page |-> p, hook |-> h, done |-> FALSE]]
    /\ UNCHANGED hooks

TakeEffect(cl) ==
    /\ requests[cl] # Null
    /\ ~requests[cl].done
    /\ hooks' = [hooks EXCEPT ![requests[cl].page] = requests[cl].hook]
    /\ requests' = [requests EXCEPT ![cl] = [@ EXCEPT !.done = TRUE]]

Return(cl) ==
    /\ requests[cl] # Null
    /\ requests[cl].done
    /\ requests' = [requests EXCEPT ![cl] = Null]
    /\ UNCHANGED hooks

AbstractNext ==
    \E cl \in Clients :
        \/ \E p \in Pages, h \in Hooks \union {Null} : Call(cl, p, h)
        \/ TakeEffect(cl)
        \/ Return(cl)

AbstractSpec == AbstractInit /\ [][AbstractNext]_absVars
=============================================================================
