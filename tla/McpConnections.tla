--------------------------- MODULE McpConnections ---------------------------
(***************************************************************************)
(* The connection to one MCP server over the life of a session: connect,   *)
(* reconnect, remove, shutdown and the server's own end                    *)
(* (packages/agent-core/src/mcp/connection-manager.ts).                    *)
(*                                                                         *)
(* A call of the manager is named by an Op; the entry object that a call   *)
(* creates and the client it starts go by the name of the call.  Calls     *)
(* overlap at their awaits: while a client is being closed, and while one  *)
(* starts and lists its tools.                                             *)
(***************************************************************************)
EXTENDS Integers

CONSTANTS
    Op,
    SlowClose    \* a client may start within the time another takes to close

VARIABLES
    entry,      \* the entry object in the map: {} or {op}
    attempt,    \* per entry object: attemptId
    status,     \* per entry object
    client,     \* per entry object: its client, {} or {op}
    link,       \* per client: "none", "starting", "open", "closed"
    pc,         \* per call: what it awaits
    on,         \* per call: the entry object it works on, {} or {op}
    try         \* per call: the attempt it began

vars == << entry, attempt, status, client, link, pc, on, try >>

Closing == {"connect", "reconnect", "remove"}

TypeOK ==
    /\ entry \in SUBSET Op
    /\ attempt \in [Op -> Nat]
    /\ status \in [Op -> {"none", "pending", "connected", "failed", "disabled"}]
    /\ client \in [Op -> SUBSET Op]
    /\ link \in [Op -> {"none", "starting", "open", "closed"}]
    /\ pc \in [Op -> {"new", "starting", "done"} \cup Closing]
    /\ on \in [Op -> SUBSET Op]
    /\ try \in [Op -> Nat]

\* isCurrent: the entry is still in the map and no later attempt has begun.
IsCurrent(o) == on[o] = entry /\ \A e \in on[o]: attempt[e] = try[o]

Init ==
    /\ entry = {}
    /\ attempt = [o \in Op |-> 0]
    /\ status = [o \in Op |-> "none"]
    /\ client = [o \in Op |-> {}]
    /\ link = [o \in Op |-> "none"]
    /\ pc = [o \in Op |-> "new"]
    /\ on = [o \in Op |-> {}]
    /\ try = [o \in Op |-> 0]
-----------------------------------------------------------------------------
Goes(o, to) == pc' = [pc EXCEPT ![o] = to]

\* closeClient: the entry forgets its client, which is told to close.
Close(e) ==
    /\ client' = [client EXCEPT ![e] = {}]
    /\ link' = [c \in Op |-> IF c \in client[e] THEN "closed" ELSE link[c]]

\* connectOne up to its await: attempt n on e starts the client of call o.
ConnectOne(o, e, n) ==
    /\ Goes(o, "starting")
    /\ on' = [on EXCEPT ![o] = {e}]
    /\ try' = [try EXCEPT ![o] = n]
    /\ attempt' = [attempt EXCEPT ![e] = n]
    /\ status' = [status EXCEPT ![e] = "pending"]
    /\ client' = [client EXCEPT ![e] = {o}]
    /\ link' = [link EXCEPT ![o] = "starting"]

\* The previous client is closed first, and waited for.
Connect(o) ==
    /\ pc[o] = "new"
    /\ \E e \in entry: client[e] # {} /\ Close(e)
    /\ Goes(o, "connect")
    /\ UNCHANGED << entry, attempt, status, on, try >>

\* connect behind that await, or with nothing to close: a new entry takes the
\* place of whatever is in the map now.
ConnectOn(o) ==
    /\ pc[o] = "connect" \/ (pc[o] = "new" /\ \A e \in entry: client[e] = {})
    /\ entry' = {o}
    /\ ConnectOne(o, o, 1)

\* The same for a server that the configuration disables.
ConnectDisabled(o) ==
    /\ pc[o] = "connect" \/ (pc[o] = "new" /\ \A e \in entry: client[e] = {})
    /\ entry' = {o}
    /\ status' = [status EXCEPT ![o] = "disabled"]
    /\ Goes(o, "done")
    /\ UNCHANGED << attempt, client, link, on, try >>

Reconnect(o) ==
    /\ pc[o] = "new"
    /\ \E e \in entry:
          /\ status[e] # "disabled"
          /\ attempt' = [attempt EXCEPT ![e] = attempt[e] + 1]
          /\ try' = [try EXCEPT ![o] = attempt[e] + 1]
          /\ on' = [on EXCEPT ![o] = {e}]
          /\ Close(e)
    /\ Goes(o, "reconnect")
    /\ UNCHANGED << entry, status >>

ReconnectOn(o) ==
    /\ pc[o] = "reconnect"
    /\ IF IsCurrent(o)
       THEN \E e \in on[o]: ConnectOne(o, e, try[o])
       ELSE Goes(o, "done") /\ UNCHANGED << attempt, status, client, link, on, try >>
    /\ UNCHANGED entry

Remove(o) ==
    /\ pc[o] = "new"
    /\ \E e \in entry: Close(e) /\ on' = [on EXCEPT ![o] = {e}]
    /\ Goes(o, "remove")
    /\ UNCHANGED << entry, attempt, status, try >>

\* The map loses the name, whatever entry is there by now.
RemoveOn(o) ==
    /\ pc[o] = "remove"
    /\ Goes(o, "done")
    /\ status' = [e \in Op |-> IF e \in on[o] THEN "disabled" ELSE status[e]]
    /\ entry' = {}
    /\ UNCHANGED << attempt, client, link, on, try >>

Shutdown(o) ==
    /\ pc[o] = "new"
    /\ \E e \in entry: Close(e)
    /\ entry' = {}
    /\ Goes(o, "done")
    /\ UNCHANGED << attempt, status, on, try >>
-----------------------------------------------------------------------------
\* Mutant of Started: the client is kept without looking whether the attempt
\* is still the current one.
Started_Unchecked(o) ==
    /\ pc[o] = "starting" /\ link[o] = "starting"
    /\ SlowClose \/ \A p \in Op: pc[p] \notin Closing
    /\ Goes(o, "done")
    /\ link' = [link EXCEPT ![o] = "open"]
    /\ status' = [e \in Op |-> IF e \in on[o] THEN "connected" ELSE status[e]]
    /\ UNCHANGED << entry, attempt, client, on, try >>

\* The client is up and has listed its tools.
Started(o) ==
    /\ pc[o] = "starting" /\ link[o] = "starting"
    /\ SlowClose \/ \A p \in Op: pc[p] \notin Closing
    /\ Goes(o, "done")
    /\ IF IsCurrent(o)
       THEN /\ link' = [link EXCEPT ![o] = "open"]
            /\ status' = [e \in Op |-> IF e \in on[o] THEN "connected" ELSE status[e]]
       ELSE link' = [link EXCEPT ![o] = "closed"] /\ UNCHANGED status
    /\ UNCHANGED << entry, attempt, client, on, try >>

\* It does not come up, is unauthorized, is late, or has been closed meanwhile.
StartFails(o) ==
    /\ pc[o] = "starting"
    /\ Goes(o, "done")
    /\ IF IsCurrent(o)
       THEN \E e \in on[o]:
               /\ status' = [status EXCEPT ![e] = "failed"]
               /\ Close(e)
       ELSE /\ link' = [link EXCEPT ![o] = "closed"]
            /\ UNCHANGED << status, client >>
    /\ UNCHANGED << entry, attempt, on, try >>

\* watchForUnexpectedClose: the server ends, or drops the connection.
Drops(o) ==
    /\ link[o] = "open"
    /\ link' = [link EXCEPT ![o] = "closed"]
    /\ IF IsCurrent(o) /\ \E e \in on[o]: client[e] = {o}
       THEN \E e \in on[o]:
               /\ status' = [status EXCEPT ![e] = "failed"]
               /\ client' = [client EXCEPT ![e] = {}]
       ELSE UNCHANGED << status, client >>
    /\ UNCHANGED << entry, attempt, pc, on, try >>

Next ==
    \E o \in Op:
        \/ Connect(o) \/ ConnectOn(o) \/ ConnectDisabled(o)
        \/ Reconnect(o) \/ ReconnectOn(o)
        \/ Remove(o) \/ RemoveOn(o) \/ Shutdown(o)
        \/ Started(o) \/ StartFails(o) \/ Drops(o)

Spec == Init /\ [][Next]_vars
-----------------------------------------------------------------------------
\* No server process or connection is left behind: a client that is up is the
\* one of the entry in the map, and one that is starting is still awaited by
\* the call that started it.
NoOrphanClient ==
    \A o \in Op:
        /\ link[o] = "open" => \E e \in entry: client[e] = {o}
        /\ link[o] = "starting" => pc[o] = "starting"
=============================================================================
