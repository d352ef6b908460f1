---------------------------- MODULE PrivateFeed -----------------------------
(***************************************************************************)
(* The private feed of one pipeline: the WebSocket client that brings the  *)
(* fills and the order updates (exchange/bitget/BitgetPrivateWsClient).    *)
(*                                                                         *)
(* All its handlers run on one io_context thread. A stream is replaced by  *)
(* connect(); a read that is pending on the old one then ends with         *)
(* operation_aborted, and on_read does not tell that error from any other. *)
(* There is no pong timeout: a silent death shows when the kernel gives up *)
(* on the pings, as an error of the write or of the read.                  *)
(***************************************************************************)
EXTENDS Naturals, Sequences

CONSTANTS
  PrivateChannels,   \* the channels start() subscribes to, in their order
  MaxPrivateBreaks,  \* bound: links that break
  MaxAuthTimeouts    \* bound: logins that are not answered in 10 s

ASSUME PrivateAssumption == {MaxPrivateBreaks, MaxAuthTimeouts} \subseteq Nat

VARIABLES
  stream,   \* ws_stream: none, connecting, login, greeted, open, broken
  auth,     \* authenticated
  timer,    \* reconnect_timer is set
  aborted,  \* a handler of a replaced stream waits to run with an error
  psubs,    \* subscriptions
  pcaller,  \* the thread in TradingPipeline::start
  pserved,  \* the channels the exchange serves on the current stream
  pleft     \* breaks and timeouts that may still happen

privateVars == <<stream, auth, timer, aborted, psubs, pcaller, pserved, pleft>>

PrivateInit ==
  /\ stream = "connecting"
  /\ auth = FALSE
  /\ timer = FALSE
  /\ aborted = FALSE
  /\ psubs = {}
  /\ pcaller = [todo |-> PrivateChannels, step |-> "push"]
  /\ pserved = {}
  /\ pleft = [breaks |-> MaxPrivateBreaks, timeouts |-> MaxAuthTimeouts]

(* schedule_reconnect: the flags are cleared, the timer is set anew. The    *)
(* stream stays as it is.                                                   *)
ScheduleReconnect ==
  /\ auth' = FALSE
  /\ timer' = TRUE

(* connect(): a new stream takes the place of the old one, whose pending    *)
(* operation, if it has one, is aborted.                                    *)
ConnectAgain ==
  /\ timer
  /\ timer' = FALSE
  /\ aborted' = (aborted \/ stream \in {"connecting", "login", "greeted", "open"})
  /\ stream' = "connecting"
  /\ pserved' = {}
  /\ UNCHANGED <<auth, psubs, pcaller, pleft>>

(* on_read, or a connection handler, of the replaced stream *)
OnAborted ==
  /\ aborted
  /\ aborted' = FALSE
  /\ ScheduleReconnect
  /\ UNCHANGED <<stream, psubs, pcaller, pserved, pleft>>

(* on_resolve, on_tcp_connect, the handshakes, when one fails *)
PrivateAttemptFails ==
  /\ stream = "connecting"
  /\ stream' = "broken"
  /\ ScheduleReconnect
  /\ UNCHANGED <<aborted, psubs, pcaller, pserved, pleft>>

(* on_ws_handshake: the auth timer is set, the login is sent *)
SendLogin ==
  /\ stream = "connecting"
  /\ stream' = "login"
  /\ UNCHANGED <<auth, timer, aborted, psubs, pcaller, pserved, pleft>>

(* the login is confirmed: authenticated_ is set ... *)
OnLogin ==
  /\ stream = "login"
  /\ stream' = "greeted"
  /\ auth' = TRUE
  /\ UNCHANGED <<timer, aborted, psubs, pcaller, pserved, pleft>>

(* ... and then resubscribe_all takes the lock *)
ResubscribeAll ==
  /\ stream = "greeted"
  /\ stream' = "open"
  /\ pserved' = pserved \cup psubs
  /\ UNCHANGED <<auth, timer, aborted, psubs, pcaller, pleft>>

(* the auth timer: it schedules the reconnect and leaves the stream, with   *)
(* its pending read, in place                                               *)
AuthTimeout ==
  /\ stream = "login"
  /\ ~timer
  /\ pleft.timeouts > 0
  /\ ScheduleReconnect
  /\ pleft' = [pleft EXCEPT !.timeouts = @ - 1]
  /\ UNCHANGED <<stream, aborted, psubs, pcaller, pserved>>

(* a read ends with an error: no read is pending any more *)
ReadError ==
  /\ stream \in {"login", "open"}
  /\ pleft.breaks > 0
  /\ stream' = "broken"
  /\ pserved' = {}
  /\ ScheduleReconnect
  /\ pleft' = [pleft EXCEPT !.breaks = @ - 1]
  /\ UNCHANGED <<aborted, psubs, pcaller>>

(* subscribe(): the list under the lock, then the flag without it *)
PrivateSubscribePush ==
  /\ pcaller.todo # <<>> /\ pcaller.step = "push"
  /\ psubs' = psubs \cup {Head(pcaller.todo)}
  /\ pcaller' = [pcaller EXCEPT !.step = "check"]
  /\ UNCHANGED <<stream, auth, timer, aborted, pserved, pleft>>

AskedNow_Never == FALSE

AskedNow == auth

(* a request that is written to a stream that is not open ends with an error *)
PrivateSubscribeCheck ==
  /\ pcaller.step = "check"
  /\ pcaller' = [todo |-> Tail(pcaller.todo), step |-> "push"]
  /\ \/ /\ AskedNow /\ stream \in {"greeted", "open"}
        /\ pserved' = pserved \cup {Head(pcaller.todo)}
        /\ UNCHANGED <<auth, timer>>
     \/ /\ AskedNow /\ stream \notin {"greeted", "open"}
        /\ ScheduleReconnect
        /\ UNCHANGED pserved
     \/ /\ ~AskedNow
        /\ UNCHANGED <<auth, timer, pserved>>
  /\ UNCHANGED <<stream, aborted, psubs, pleft>>

(* stop(), of a pipeline that was started: the stream is closed in the io   *)
(* thread, which is joined.                                                 *)
StopPrivate ==
  /\ stream # "none"
  /\ pcaller.todo = <<>>
  /\ stream' = "none"
  /\ auth' = FALSE
  /\ timer' = FALSE
  /\ aborted' = FALSE
  /\ pserved' = {}
  /\ UNCHANGED <<psubs, pcaller, pleft>>

PrivateNext ==
  \/ ConnectAgain
  \/ OnAborted
  \/ PrivateAttemptFails
  \/ SendLogin
  \/ OnLogin
  \/ ResubscribeAll
  \/ AuthTimeout
  \/ ReadError
  \/ PrivateSubscribePush
  \/ PrivateSubscribeCheck
  \/ StopPrivate

(* Handlers that are due run, timers fire, the caller's thread goes on;     *)
(* attempts to connect end and not all of them fail; a login is answered    *)
(* unless it times out.                                                     *)
PrivateFairness ==
  /\ WF_privateVars(ConnectAgain)
  /\ WF_privateVars(OnAborted)
  /\ WF_privateVars(PrivateAttemptFails \/ SendLogin)
  /\ SF_privateVars(SendLogin)
  /\ SF_privateVars(OnLogin)
  /\ WF_privateVars(ResubscribeAll)
  /\ WF_privateVars(PrivateSubscribePush \/ PrivateSubscribeCheck)
=============================================================================
