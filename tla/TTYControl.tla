----------------------------- MODULE TTYControl -----------------------------
(***************************************************************************)
(* The terminal of one process: the path of its control socket, the tty    *)
(* handler unit that makePty starts (pty.c), the ttyControlClient through  *)
(* which ResizePty talks to the handler, and the end of both in Delete     *)
(* (pty.go).  A request or reply line is one message: pty.c reassembles    *)
(* lines, and each is far shorter than its buffers.  A connection the      *)
(* client has closed keeps its unread request, as a socket does.           *)
(*                                                                         *)
(* A call asks for a size nobody else asks for, so the call names it.      *)
(***************************************************************************)
EXTENDS Naturals, SequencesExt

CONSTANTS Resizers,  \* ResizePty calls; besides them one Create and one Delete
          Scenarios, \* the circumstances of a behaviour, see below
          Backlog,   \* connections listen(2) lets wait for accept
          NoCall     \* none of the calls

ASSUME BacklogNat == Backlog \in Nat
\* early: the resizes that do not wait for Create to return; framed: replies end with a
\* newline, as those of pty.c do; killsFail: the calls that are to end the handler may
\* fail.
ASSUME ScenariosType ==
    Scenarios \subseteq [early : SUBSET Resizers, framed : BOOLEAN, killsFail : BOOLEAN]
ASSUME ResizersFresh == Resizers \intersect {"create", "delete"} = {}
ASSUME NoCallFresh == NoCall \notin Resizers \union {"create", "delete"}

VARIABLES sockFile,    \* tty.sock: the path it holds, named after who made it
          path, console,  \* per call: the path it found; runc's --console-socket
          handler,     \* the tty unit: state, path, backlog, connection served
          conns,       \* connections in the order of their dials
          clients, ttyControl,  \* every ttyControlClient, and p.ttyControl
          mine,        \* per call: the client it fetched from p
          size,        \* the window size: whose request was applied last
          tracked,     \* the process can be looked up
          pc,
          applied, written,  \* history: requests applied; requests in order
          spared,      \* history: the handler outlived Delete's kill
          dialled,     \* history: connections dialled when Delete detached the client
          scenario     \* what this behaviour is about; never changes

sock == <<sockFile, path, console>>
client == <<conns, clients, ttyControl, mine>>
requests == <<applied, written>>
history == <<requests, spared, dialled>>
vars == <<sock, handler, client, size, tracked, pc, history, scenario>>

Framings == {s.framed : s \in Scenarios}

Calls == Resizers \union {"create", "delete"}
ConnIds == 1..Len(conns)
None == 0  \* no connection, no client
Runc == 0  \* runc's connection, among those of the clients

Init == /\ sockFile = NoCall /\ console = NoCall
        /\ path = [h \in Calls |-> NoCall]
        /\ scenario \in Scenarios
        /\ handler = [st |-> "none", path |-> NoCall, backlog |-> <<>>,
                      serving |-> {}, framed |-> scenario.framed]
        /\ conns = <<>> /\ clients = <<>> /\ ttyControl = None
        /\ mine = [h \in Calls |-> None]
        /\ size = NoCall /\ tracked = TRUE
        /\ pc = [h \in Calls |-> "new"]
        /\ applied = {} /\ written = <<>> /\ spared = FALSE /\ dialled = 0

Goto(h, label) == pc' = [pc EXCEPT ![h] = label]
Step(h, from, to) == pc[h] = from /\ Goto(h, to)

-----------------------------------------------------------------------------
(***************************************************************************)
(* ttySockPath: the path in the file, or a new one that is written to it.  *)
(* Nothing makes the two steps one, and either may fail.                   *)
(***************************************************************************)
ttySockPath(h, from, to) ==
    /\ pc[h] = from
    /\ \/ sockFile = NoCall /\ Goto(h, "make_path") /\ UNCHANGED path
       \/ /\ sockFile # NoCall
          /\ path' = [path EXCEPT ![h] = sockFile] /\ Goto(h, to)
       \/ Goto(h, "err") /\ UNCHANGED path
    /\ UNCHANGED <<sockFile, console, handler, client, size, tracked, history>>

makeSockPath(h, to) ==
    /\ \/ /\ Step(h, "make_path", to)
          /\ sockFile' = h /\ path' = [path EXCEPT ![h] = h]
       \/ Step(h, "make_path", "err") /\ UNCHANGED <<sockFile, path>>
    /\ UNCHANGED <<console, handler, client, size, tracked, history>>

-----------------------------------------------------------------------------
(***************************************************************************)
(* The tty handler, pty.c.                                                 *)
(***************************************************************************)
HandlerUp == handler.st \in {"starting", "listening", "ready"}

\* The handler's process ends; the kernel closes every connection of it.
Ends(st) == handler' = [handler EXCEPT !.st = st, !.backlog = <<>>, !.serving = {}]

\* tty_recv_fd up to READY=1, or one of its errors.
HandlerStarts ==
    /\ handler.st = "starting"
    /\ handler' = [handler EXCEPT !.st = "listening"] \/ Ends("dead")
    /\ UNCHANGED <<sock, client, size, tracked, pc, history>>

\* The terminal is gone: the copy of its output ends, and handle_pty exits.
HandlerExits ==
    /\ handler.st = "ready"
    /\ Ends("dead")
    /\ UNCHANGED <<sock, client, size, tracked, pc, history>>

\* runc connects to its console socket and sends the terminal's descriptor.
RuncConnects ==
    /\ pc["create"] = "runc" /\ handler.st = "listening"
    /\ console = handler.path /\ Len(handler.backlog) <= Backlog
    /\ handler' = [handler EXCEPT !.backlog = Append(@, Runc)]
    /\ Goto("create", "ok")
    /\ UNCHANGED <<sock, client, size, tracked, history>>

\* The rest of tty_recv_fd: the first connection is taken for runc's.  One that brings
\* no descriptor is the end of the handler.
HandlerHandshake ==
    /\ handler.st = "listening" /\ handler.backlog # <<>>
    /\ IF Head(handler.backlog) = Runc
       THEN handler' = [handler EXCEPT !.st = "ready", !.backlog = Tail(@)]
       ELSE Ends("dead")
    /\ UNCHANGED <<sock, client, size, tracked, pc, history>>

\* Mutant of Accept: a connection is accepted while another is served.
AcceptMore ==
    /\ handler.st = "ready" /\ handler.backlog # <<>>
    /\ handler' = [handler EXCEPT !.serving = @ \union {Head(handler.backlog)},
                                  !.backlog = Tail(@)]
    /\ UNCHANGED <<sock, client, size, tracked, pc, history>>

\* handle_tty_ops: one connection at a time.
Accept ==
    /\ handler.st = "ready" /\ handler.backlog # <<>> /\ handler.serving = {}
    /\ handler' = [handler EXCEPT !.serving = {Head(handler.backlog)},
                                  !.backlog = Tail(@)]
    /\ UNCHANGED <<sock, client, size, tracked, pc, history>>

\* handle_tty_request: apply the size, or fail to, and answer.  When the client has
\* closed, the answer cannot be written and the connection is closed.
Serve ==
    \E c \in handler.serving, ok \in BOOLEAN :
        /\ conns[c].req # <<>>
        /\ LET call == Head(conns[c].req)
           IN  /\ size' = IF ok THEN call ELSE size
               /\ applied' = IF ok THEN applied \union {call} ELSE applied
        /\ conns' = [conns EXCEPT ![c].req = Tail(@),
                                  ![c].rep = IF conns[c].open THEN Append(@, ok) ELSE @]
        /\ handler' = IF conns[c].open THEN handler
                                       ELSE [handler EXCEPT !.serving = @ \ {c}]
        /\ UNCHANGED <<sock, clients, ttyControl, mine, tracked, pc, written, spared,
                       dialled>>

\* handle_tty_op_conn reads the end of the stream.
ServeEnd ==
    \E c \in handler.serving :
        /\ conns[c].req = <<>> /\ ~conns[c].open
        /\ handler' = [handler EXCEPT !.serving = @ \ {c}]
        /\ UNCHANGED <<sock, client, size, tracked, pc, history>>

Handler == HandlerHandshake \/ Accept \/ Serve \/ ServeEnd \/ HandlerExits

-----------------------------------------------------------------------------
(***************************************************************************)
(* makePty, on behalf of Create, which asks for the path twice: for runc's *)
(* command line and for the handler.                                       *)
(***************************************************************************)
StartTTY(from, failed) ==
    /\ pc["create"] = from
    /\ \/ /\ handler' = [handler EXCEPT !.st = "starting", !.path = path["create"]]
          /\ Goto("create", "m_wait")
       \/ Goto("create", failed) /\ UNCHANGED handler
    /\ UNCHANGED <<sock, client, size, tracked, history>>

\* The unit's job is awaited; when the context ends, makePty reports success.
AwaitTTY ==
    /\ \/ handler.st # "starting" /\ Step("create", "m_wait",
             IF handler.st = "dead" THEN "m_stop" ELSE "runc")
       \/ Step("create", "m_wait", "runc")
    /\ UNCHANGED <<sock, handler, client, size, tracked, history>>

\* makePty's own deferred StopUnit, and Create's deferred kill when runc then fails.
\* Both ignore the error of the call, and then the handler lives on.
StopTTY ==
    /\ \/ Step("create", "m_stop", "err")
       \/ pc["create"] = "runc" /\ Goto("create", "err")
    /\ \/ HandlerUp /\ Ends("dead")
       \/ (HandlerUp => scenario.killsFail) /\ UNCHANGED handler
    /\ UNCHANGED <<sock, client, size, tracked, history>>

Console ==
    /\ Step("create", "m_console", "m_path")
    /\ console' = path["create"]
    /\ UNCHANGED <<sockFile, path, handler, client, size, tracked, history>>

makePty == \/ ttySockPath("create", "new", "m_console")
           \/ makeSockPath("create", "m_console") \/ Console
           \/ ttySockPath("create", "m_path", "m_start")
           \/ StartTTY("m_start", "m_reset") \/ StartTTY("m_reset", "m_stop")
           \/ AwaitTTY \/ StopTTY

-----------------------------------------------------------------------------
(***************************************************************************)
(* ResizePty.                                                              *)
(***************************************************************************)
\* Service.ResizePty finds the process, or does not.
Lookup(h) ==
    /\ h \in scenario.early \/ pc["create"] \in {"ok", "err"}
    /\ Step(h, "new", IF tracked THEN "path" ELSE "err")
    /\ UNCHANGED <<sock, handler, client, size, tracked, history>>

\* process.ResizePTY, under p.mu: fetch the client, or make one for this path.
ResizePTY(h) ==
    /\ Step(h, "client", "lock")
    /\ IF ttyControl = None
       THEN /\ clients' = Append(clients, [path |-> path[h], conn |-> None,
                                           mu |-> NoCall])
            /\ ttyControl' = Len(clients) + 1
       ELSE UNCHANGED <<clients, ttyControl>>
    /\ mine' = [mine EXCEPT ![h] = ttyControl']
    /\ UNCHANGED <<sock, handler, conns, size, tracked, history>>

Conn(h) == clients[mine[h]].conn

Locked(h, from) == pc[h] = from /\ clients[mine[h]].mu = h

\* Leave c.mu and return.
Returns(h, how) == /\ clients' = [clients EXCEPT ![mine[h]].mu = NoCall]
                   /\ Goto(h, how)

\* Resize takes c.mu and dials, unless there is a connection.  The dial fails when
\* nobody listens on the path or the backlog is full.
Reachable(k) == /\ handler.st \in {"listening", "ready"}
                /\ handler.path = clients[k].path
                /\ Len(handler.backlog) <= Backlog

dial(h) ==
    LET k == mine[h]
        c == Len(conns) + 1
    IN  /\ pc[h] = "lock" /\ clients[k].mu = NoCall
        /\ \/ /\ Conn(h) # None
              /\ clients' = [clients EXCEPT ![k].mu = h]
              /\ Goto(h, "write")
              /\ UNCHANGED <<handler, conns>>
           \/ /\ Conn(h) = None /\ Reachable(k)
              /\ conns' = Append(conns, [open |-> TRUE, req |-> <<>>, rep |-> <<>>])
              /\ clients' = [clients EXCEPT ![k].mu = h, ![k].conn = c]
              /\ handler' = [handler EXCEPT !.backlog = Append(@, c)]
              /\ Goto(h, "write")
           \/ /\ Conn(h) = None /\ ~Reachable(k)
              /\ Goto(h, "err")
              /\ UNCHANGED <<handler, conns, clients>>
        /\ UNCHANGED <<sock, ttyControl, mine, size, tracked, history>>

\* reset: close and forget the connection.
resets(h, how) ==
    LET k == mine[h]
    IN  /\ conns' = IF Conn(h) = None THEN conns
                    ELSE [conns EXCEPT ![Conn(h)].open = FALSE]
        /\ clients' = [clients EXCEPT ![k].conn = None, ![k].mu = NoCall]
        /\ Goto(h, how)
        /\ UNCHANGED <<sock, handler, ttyControl, mine, size, tracked, history>>

\* The handler still holds its end of connection c.
PeerUp(c) == c \in handler.serving \union Range(handler.backlog)

\* The write of exchange; its deadline may be over, or the handler gone.
Write(h) ==
    /\ Locked(h, "write")
    /\ \/ /\ PeerUp(Conn(h))
          /\ conns' = [conns EXCEPT ![Conn(h)].req = Append(@, h)]
          /\ written' = Append(written, h)
          /\ Goto(h, "read")
          /\ UNCHANGED <<sock, handler, clients, ttyControl, mine, size, tracked,
                         applied, spared, dialled>>
       \/ resets(h, "err")

\* readMsg finds a whole line, or, from a handler that does not frame its replies,
\* what had come when the read ended.  Resize then returns what the reply says and
\* keeps the connection; two unframed replies in one are an unexpected response.
ReadReply(h) ==
    /\ Locked(h, "read")
    /\ LET rep == conns[Conn(h)].rep
           seen == IF handler.framed THEN <<Head(rep)>> ELSE rep
       IN  /\ rep # <<>>
           /\ Returns(h, IF seen = <<TRUE>> THEN "ok" ELSE "err")
           /\ conns' = [conns EXCEPT ![Conn(h)].rep = SubSeq(@, Len(seen) + 1, Len(@))]
    /\ UNCHANGED <<sock, handler, ttyControl, mine, size, tracked, history>>

\* Mutant of ReadFails: the read has no deadline.
ReadFailsAtEnd(h) ==
    /\ Locked(h, "read") /\ ~PeerUp(Conn(h)) /\ conns[Conn(h)].rep = <<>>
    /\ resets(h, "err")

\* Mutant of ReadFails: the connection is kept for the next resize.
ReadFailsKeeping(h) ==
    /\ Locked(h, "read")
    /\ Returns(h, "err")
    /\ UNCHANGED <<sock, handler, conns, ttyControl, mine, size, tracked, history>>

\* The deadline or the end of the stream comes first.
ReadFails(h) == Locked(h, "read") /\ resets(h, "err")

ResizePty(h) == \/ Lookup(h)
                \/ ttySockPath(h, "path", "client") \/ makeSockPath(h, "client")
                \/ ResizePTY(h)
                \/ dial(h) \/ Write(h)
                \/ ReadReply(h) \/ ReadFails(h)

-----------------------------------------------------------------------------
(***************************************************************************)
(* The end of Delete: kill the handler, detach and close the client, then  *)
(* the process is forgotten.                                               *)
(***************************************************************************)
\* KillUnit with SIGKILL.  Its error is ignored: when the call fails, the handler
\* serves on.
KillTTY ==
    /\ pc["create"] \in {"ok", "err"}
    /\ Step("delete", "new", "detach")
    /\ \/ HandlerUp /\ Ends("dead") /\ UNCHANGED spared
       \/ (HandlerUp => scenario.killsFail) /\ spared' = HandlerUp /\ UNCHANGED handler
    /\ UNCHANGED <<sock, client, size, tracked, requests, dialled>>

\* Mutant of closeTTYControl: the client is detached and forgotten, and not closed.
closeTTYControlDetachOnly ==
    /\ Step("delete", "detach", "untrack")
    /\ ttyControl' = None /\ dialled' = Len(conns)
    /\ UNCHANGED <<sock, handler, conns, clients, mine, size, tracked, requests,
                   spared>>

\* closeTTYControl: detach under p.mu, close under c.mu.
closeTTYControl ==
    LET h == "delete"
    IN  \/ /\ Step(h, "detach", IF ttyControl = None THEN "untrack" ELSE "lock")
           /\ mine' = [mine EXCEPT ![h] = ttyControl]
           /\ ttyControl' = None
           /\ dialled' = Len(conns)
           /\ UNCHANGED <<sock, handler, conns, clients, size, tracked, requests,
                          spared>>
        \/ /\ pc[h] = "lock" /\ clients[mine[h]].mu = NoCall
           /\ resets(h, "untrack")

Untrack == /\ Step("delete", "untrack", "ok")
           /\ tracked' = FALSE
           /\ UNCHANGED <<sock, handler, client, size, history>>

Delete == KillTTY \/ closeTTYControl \/ Untrack

Steps == \/ HandlerStarts \/ RuncConnects \/ Handler
         \/ makePty
         \/ \E h \in Resizers : ResizePty(h)
         \/ Delete

Next == Steps /\ UNCHANGED scenario

\* Goroutines that can run do, deadlines come and systemd starts the unit or gives
\* up.  The handler itself may be wedged at any point, and nobody has to resize or
\* delete.
Fairness ==
    /\ WF_vars(HandlerStarts /\ UNCHANGED scenario)
    /\ WF_vars(makePty /\ UNCHANGED scenario)
    /\ \A h \in Resizers : WF_vars(pc[h] # "new" /\ ResizePty(h) /\ UNCHANGED scenario)
    /\ WF_vars(pc["delete"] # "new" /\ Delete /\ UNCHANGED scenario)

Safe == Init /\ [][Next]_vars
Spec == Safe /\ Fairness

-----------------------------------------------------------------------------
Finished == {"new", "ok", "err"}

Labels == Finished \union {"path", "make_path", "client", "lock", "write", "read",
    "m_console", "m_path", "m_start", "m_reset", "m_wait", "m_stop", "runc",
    "detach", "untrack"}

\* The types of what the program keeps.
StateTypes ==
    /\ sockFile \in Calls \union {NoCall} /\ console \in Calls \union {NoCall}
    /\ path \in [Calls -> Calls \union {NoCall}]
    /\ handler \in [st : {"none", "starting", "listening", "ready", "dead"},
                    path : Calls \union {NoCall}, backlog : Seq(ConnIds \union {Runc}),
                    serving : SUBSET ConnIds, framed : Framings]
    /\ conns \in Seq([open : BOOLEAN, req : Seq(Resizers), rep : Seq(BOOLEAN)])
    /\ clients \in Seq([path : Calls, conn : ConnIds \union {None},
                        mu : Calls \union {NoCall}])
    /\ ttyControl \in 0..Len(clients)
    /\ mine \in [Calls -> 0..Len(clients)]
    /\ size \in Resizers \union {NoCall}
    /\ tracked \in BOOLEAN
    /\ pc \in [Calls -> Labels]
    /\ applied \subseteq Resizers /\ written \in Seq(Resizers)

\* The type of every variable.
TypeOK == /\ StateTypes /\ spared \in BOOLEAN /\ dialled \in 0..Len(conns)
          /\ scenario \in Scenarios

\* A Resize that returns success was applied: no call takes the reply to another, be
\* it one whose client timed out (pty.go:96-101) or one that was not framed
\* (pty.go:163-169).
AckIsOwn == \A h \in Resizers : pc[h] = "ok" => h \in applied

\* One client is in use.  A resize that found the process before it was forgotten
\* makes a second one beside that which Delete detached; it matters if the handler
\* outlived Delete's kill.
OneClient == ~spared \/ Len(clients) <= 1

\* Once a Resize has succeeded, no request written before it takes effect any more,
\* although an abandoned one still sits in its connection (pty.c: "Only handle one
\* connection at a time").  Two clients write in no common order, so that the promise
\* ends when there are two and a handler to serve them.
StaleNeverWins ==
    OneClient => \A m, n \in 1..Len(written) :
                    m < n /\ pc[written[n]] = "ok" => size # written[m]

\* When Delete is over no control connection is left that nobody would close, although
\* a resize that found the process before may still make a client and dial (pty.go:216,
\* 230).  Delete ignores the error of its KillUnit (delete.go:182, 248): if that failed
\* while the handler was up, what was dialled before Delete detached the client is
\* closed all the same, and only a connection dialled after that may be left.
NoConnectionLeft ==
    pc["delete"] = "ok" =>
        \A c \in ConnIds : conns[c].open => spared /\ c > dialled

\* A wedged or vanished handler holds nobody up: every resize returns, and Delete,
\* which may have to wait for one to leave c.mu (pty.go:54-60, 227-229).
CallsReturn == <>[](\A h \in Resizers \union {"delete"} : pc[h] \in Finished)
=============================================================================
