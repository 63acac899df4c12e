--------------------------- MODULE SpanRenderer ----------------------------
(***************************************************************************)
(* The SPAN renderer (src/agent-ovs/ovs/SpanRenderer.cpp): SpanManager     *)
(* callbacks (spanUpdated, spanDeleted) render a mirror session into OVSDB *)
(* as a Mirror row and an ERSPAN Port; when the OVSDB connection is down   *)
(* a retry is armed on the one connection_timer, whose completion handler  *)
(* (updateConnectCb, delConnectPtrCb) runs later on the io_service.        *)
(*                                                                         *)
(* A session is abstracted to its source ports, its destination and its   *)
(* admin state; its ERSPAN Port row to its remote ip and a row identity,   *)
(* its Mirror row to its ports and the Port row it outputs to.  A          *)
(* transaction the renderer sends is applied before the next handler runs, *)
(* which reads it from OvsdbState; within a handler every read is of the   *)
(* rows as the handler found them.                                         *)
(* The timer's completion handlers run in the order asio queues them       *)
(* (cbq).  owed is a history variable:                                     *)
(* the updates and deletes that returned early for lack of a connection.  *)
(***************************************************************************)
EXTENDS Integers, Sequences

CONSTANTS
    Sessions,      \* span session URIs (named after the session)
    Ports,         \* source endpoint ports
    Dests,         \* ERSPAN destination addresses
    NoDest,        \* destination unspecified (0.0.0.0)
    NoMirror,      \* no Mirror row for the session
    NoPort,        \* no ERSPAN Port row for the session
    Absent,        \* SpanManager has no SessionState for the URI
    NoTimer,       \* connection_timer holds no timer
    MaxQueue       \* bound on queued completion handlers

SessVal == [ports : SUBSET Ports, dest : Dests \cup {NoDest}, admin : {0, 1}]

\* What the comment at lines 116-117 asks of a session before it is rendered
Complete(v) == v.ports # {} /\ v.dest # NoDest /\ v.admin = 1

VARIABLES
    sess,          \* SpanManager's SessionState per URI, or Absent
    connected,     \* whether connect() succeeds
    timer,         \* connection_timer: NoTimer or the handler it will run
    cbq,           \* completion handlers queued on the io_service
    mirror,        \* OVSDB: the session's Mirror row, or NoMirror
    port,          \* OVSDB: the session's ERSPAN Port row, or NoPort
    owed           \* <<kind, s>> deferred for lack of a connection

vars == <<sess, connected, timer, cbq, mirror, port, owed>>

Init ==
    /\ sess = [s \in Sessions |-> Absent]
    /\ connected \in BOOLEAN
    /\ timer = NoTimer
    /\ cbq = <<>>
    /\ mirror = [s \in Sessions |-> NoMirror]
    /\ port = [s \in Sessions |-> NoPort]
    /\ owed = {}

-----------------------------------------------------------------------------
(***************************************************************************)
(* connection_timer.reset(new deadline_timer(...)) and async_wait: the     *)
(* timer it held, if still waiting, is destroyed and its handler queued    *)
(* with operation_aborted (ec 125).  q is the queue before the reset.      *)
(***************************************************************************)
Aborted(q) ==
    IF timer # NoTimer /\ timer.waiting
    THEN Append(q, [kind |-> timer.kind, s |-> timer.s, ok |-> FALSE])
    ELSE q

ArmTimer(q, kind, s) ==
    /\ timer' = [kind |-> kind, s |-> s, waiting |-> TRUE]
    /\ cbq' = Aborted(q)

(***************************************************************************)
(* The OVSDB helpers, as functions of the rows the handler found.          *)
(* deleteMirror and deleteErspanPort look the row up by name and return    *)
(* when there is none; otherwise they remove it from the bridge (OVSDB     *)
(* then drops the unreferenced row).                                       *)
(***************************************************************************)
DeleteMirror(m, s) == IF mirror[s] = NoMirror THEN m ELSE [m EXCEPT ![s] = NoMirror]

DeleteErspanPort(pt, s) == IF port[s] = NoPort THEN pt ELSE [pt EXCEPT ![s] = NoPort]

\* addErspanPort inserts a new Port row, distinct from the one it replaces
AddErspanPort(pt, s, ip) ==
    [pt EXCEPT ![s] = [ip |-> ip, gen |-> IF port[s] = NoPort THEN 0
                                          ELSE 1 - port[s].gen]]

(***************************************************************************)
(* createMirror inserts a Mirror row on the session's ports; its           *)
(* output_port is the uuid getUuidForName finds for the session's ERSPAN   *)
(* port in OvsdbState, and the column is left out when there is none.      *)
(***************************************************************************)
CreateMirror(m, s, ports) == [m EXCEPT ![s] = [ports |-> ports, out |-> port[s]]]

\* sessionDeleted(name): deleteMirror and deleteErspanPort
SessionDeleted(s) ==
    /\ mirror' = DeleteMirror(mirror, s)
    /\ port' = DeleteErspanPort(port, s)

\* updateMirrorConfig: deleteErspanPort, addErspanPort, deleteMirror,
\* createMirror, each sent in turn
UpdateMirrorConfig(s, v) ==
    /\ port' = AddErspanPort(DeleteErspanPort(port, s), s, v.dest)
    /\ mirror' = CreateMirror(DeleteMirror(mirror, s), s, v.ports)

(***************************************************************************)
(* handleSpanUpdate(s) when connect() succeeds, v the session state: the   *)
(* guard of lines 118-120 deletes a provisioned session when it has        *)
(* sources, or a destination, or is admin down, and returns otherwise;     *)
(* then the ports of the mirror read before the deletion are compared with *)
(* the session's, then the ERSPAN port's remote ip.  Every read is of      *)
(* OvsdbState as the handler found it: the deletions are only sent.        *)
(***************************************************************************)
RenderSession(s, v) ==
    LET mirProv  == mirror[s] # NoMirror
        mirPorts == IF mirProv THEN mirror[s].ports ELSE {}
    IN IF ~(v.ports # {} \/ v.dest # NoDest \/ v.admin = 0)
       THEN UNCHANGED <<mirror, port>>
       ELSE IF mirPorts # v.ports \/ (port[s] # NoPort /\ port[s].ip # v.dest)
       THEN UpdateMirrorConfig(s, v)
       ELSE IF mirProv THEN SessionDeleted(s)
       ELSE UNCHANGED <<mirror, port>>

\* handleSpanUpdate(s); q is the handler queue as the caller leaves it
HandleSpanUpdate(q, s) ==
    LET v == sess'[s] IN
    IF v = Absent
    THEN /\ cbq' = q
         /\ owed' = owed \ {<<"update", s>>}
         /\ UNCHANGED <<timer, mirror, port>>
    ELSE IF ~connected
    THEN /\ ArmTimer(q, "update", s)
         /\ owed' = owed \cup {<<"update", s>>}
         /\ UNCHANGED <<mirror, port>>
    ELSE /\ RenderSession(s, v)
         /\ cbq' = q
         /\ owed' = owed \ {<<"update", s>>}
         /\ UNCHANGED timer

\* spanDeleted(seSt); q as above.  A pending update of the session is
\* moot once it is deleted: its handler would find no SessionState.
SpanDeleted(q, s) ==
    LET rest == owed \ {<<"update", s>>, <<"delete", s>>} IN
    IF ~connected
    THEN /\ ArmTimer(q, "delete", s)
         /\ owed' = rest \cup {<<"delete", s>>}
         /\ UNCHANGED <<mirror, port>>
    ELSE /\ SessionDeleted(s)
         /\ cbq' = q
         /\ owed' = rest
         /\ UNCHANGED timer

-----------------------------------------------------------------------------
\* SpanManager creates or changes a session and calls spanUpdated
SpanUpdated(s, v) ==
    /\ Len(cbq) < MaxQueue
    /\ v # sess[s]
    /\ sess' = [sess EXCEPT ![s] = v]
    /\ HandleSpanUpdate(cbq, s)
    /\ UNCHANGED connected

\* SpanManager removes a session and calls spanDeleted with its old state
SpanRemoved(s) ==
    /\ Len(cbq) < MaxQueue
    /\ sess[s] # Absent
    /\ sess' = [sess EXCEPT ![s] = Absent]
    /\ SpanDeleted(cbq, s)
    /\ UNCHANGED connected

\* The OVSDB connection goes up or down
ConnectionChanged ==
    /\ connected' = ~connected
    /\ UNCHANGED <<sess, timer, cbq, mirror, port, owed>>

\* The waiting timer expires: its handler is queued with no error
TimerExpires ==
    /\ timer # NoTimer /\ timer.waiting
    /\ timer' = [timer EXCEPT !.waiting = FALSE]
    /\ cbq' = Append(cbq, [kind |-> timer.kind, s |-> timer.s, ok |-> TRUE])
    /\ UNCHANGED <<sess, connected, mirror, port, owed>>

\* updateConnectCb: on ec 125 it returns; otherwise spanUpdated(uri)
UpdateConnectCb ==
    /\ cbq # <<>>
    /\ Head(cbq).kind = "update"
    /\ UNCHANGED <<sess, connected>>
    /\ IF Head(cbq).ok
       THEN HandleSpanUpdate(Tail(cbq), Head(cbq).s)
       ELSE /\ cbq' = Tail(cbq)
            /\ UNCHANGED <<timer, mirror, port, owed>>

\* delConnectPtrCb: on any error connection_timer.reset(); otherwise
\* spanDeleted(pSt) again
DelConnectPtrCb ==
    /\ cbq # <<>>
    /\ Head(cbq).kind = "delete"
    /\ UNCHANGED <<sess, connected>>
    /\ IF Head(cbq).ok
       THEN SpanDeleted(Tail(cbq), Head(cbq).s)
       ELSE /\ timer' = NoTimer
            /\ cbq' = Aborted(Tail(cbq))
            /\ UNCHANGED <<mirror, port, owed>>

Next ==
    \/ \E s \in Sessions, v \in SessVal : SpanUpdated(s, v)
    \/ \E s \in Sessions : SpanRemoved(s)
    \/ ConnectionChanged
    \/ TimerExpires
    \/ UpdateConnectCb
    \/ DelConnectPtrCb

Spec == Init /\ [][Next]_vars

-----------------------------------------------------------------------------
PortRows == [ip : Dests \cup {NoDest}, gen : {0, 1}]

TypeOK ==
    /\ sess \in [Sessions -> SessVal \cup {Absent}]
    /\ connected \in BOOLEAN
    /\ timer \in {NoTimer} \cup [kind : {"update", "delete"}, s : Sessions,
                                 waiting : BOOLEAN]
    /\ cbq \in Seq([kind : {"update", "delete"}, s : Sessions, ok : BOOLEAN])
    /\ port \in [Sessions -> {NoPort} \cup PortRows]
    /\ mirror \in [Sessions -> {NoMirror} \cup
                      [ports : SUBSET Ports, out : {NoPort} \cup PortRows]]
    /\ owed \subseteq {"update", "delete"} \X Sessions

(***************************************************************************)
(* A Mirror row is left behind for a session SpanManager no longer has     *)
(* only while the deletion of that session is owed: no handler and no      *)
(* retry renders a session that is gone.                                   *)
(***************************************************************************)
MirrorOnlyForKnown ==
    \A s \in Sessions :
        mirror[s] # NoMirror => sess[s] # Absent \/ <<"delete", s>> \in owed

(***************************************************************************)
(* Every update or delete that returned early for lack of a connection     *)
(* still has a retry coming: connection_timer waits to run it, or its      *)
(* handler is queued without error.                                        *)
(***************************************************************************)
RetryArmed ==
    \A o \in owed :
        \/ timer # NoTimer /\ timer.waiting /\ <<timer.kind, timer.s>> = o
        \/ \E i \in DOMAIN cbq :
               cbq[i].ok /\ <<cbq[i].kind, cbq[i].s>> = o

(***************************************************************************)
(* The comment at lines 116-117: a session is rendered when it has a       *)
(* source, a destination and admin state ON.  When spanUpdated reaches     *)
(* OVSDB, the session then has a Mirror row exactly when it is complete.   *)
(***************************************************************************)
SpanRendersSession ==
    [][ \A s \in Sessions :
            sess'[s] # sess[s] /\ sess'[s] # Absent /\ connected =>
                (mirror'[s] # NoMirror <=> Complete(sess'[s])) ]_vars

(***************************************************************************)
(* createMirror looks up the ERSPAN port updateMirrorConfig has just added *)
(* and makes it the mirror's output_port: every Mirror row outputs to its  *)
(* session's current ERSPAN Port row.                                      *)
(***************************************************************************)
MirrorOutputsToPort ==
    \A s \in Sessions : mirror[s] # NoMirror => mirror[s].out = port[s]
=============================================================================
