------------------------------ MODULE AtClient ------------------------------
(***************************************************************************)
(* The AT client of at_client.c: threads that send a command and wait for  *)
(* its response, and the parser thread that reads the lines of the AT      *)
(* server, stores them in the response object client->resp and releases    *)
(* client->resp_notice when the response is complete.                      *)
(*                                                                         *)
(* The parser has priority RT_THREAD_PRIORITY_MAX / 3 - 1 and the threads  *)
(* that send commands are less urgent: they run while the parser waits for *)
(* client->rx_notice.  The receive interrupt and the tick come at any      *)
(* moment.  client->lock hands over to its first waiter (module Mutex),    *)
(* and the two semaphores keep their tokens (module Semaphore).            *)
(***************************************************************************)
EXTENDS Integers, SequencesExt

CONSTANTS
  Caller,    \* the threads that send commands
  NoResp,    \* client->resp is RT_NULL
  BufLines,  \* how many lines a response buffer holds
  MaxData,   \* bound: data lines in front of an OK or ERROR
  MaxTries,  \* bound: turns of the loop of at_client_obj_wait_connect
  MaxCmd     \* bound: commands sent

ASSUME AtClientAssumption ==
  /\ IsFiniteSet(Caller) /\ NoResp \notin Caller
  /\ BufLines \in Nat \ {0} /\ MaxData \in Nat
  /\ MaxTries \in Nat \ {0} /\ MaxCmd \in Nat \ {0}

VARIABLES
  client_pc,    \* where a caller is in its call
  kind,         \* what it calls, see Kind
  lock,         \* client->lock: its owner, followed by its waiters
  resp,         \* client->resp, by the caller that owns the object
  resp_status,  \* client->resp_status
  resp_notice,  \* value of client->resp_notice
  line_counts,  \* line_counts of the response object of the lock's owner
  tries,        \* turns of the owner's loop in at_client_obj_wait_connect
  result,       \* what the owner is going to return
  parser,       \* where the parser is
  rx_notice,    \* value of client->rx_notice
  wire,         \* the lines in the device's receive buffer
  todo,         \* the commands the AT server has not answered
  cmds,         \* history: number of commands sent
  answer,       \* history: how the server has ended its answer to the last one
  orderly       \* history: every command had a response object and its time

client == <<lock, resp, resp_status, resp_notice>>
call == <<client_pc, kind, line_counts, tries, result>>
receiver == <<parser, rx_notice, wire>>
exchange == <<answer, orderly>>
client_vars == <<client, call, receiver, todo, cmds, exchange>>

(* at_obj_exec_cmd with resp->line_num = 0 or 1 or without a response       *)
(* object, and at_client_obj_wait_connect                                   *)
Kind == {"exec", "exec_one_line", "exec_no_resp", "connect"}

line_num(c) == IF kind[c] = "exec_one_line" THEN 1 ELSE 0

ClientInit ==
  /\ client_pc = [c \in Caller |-> "idle"]
  /\ kind = [c \in Caller |-> "exec"]
  /\ lock = <<>>
  /\ resp = NoResp /\ resp_status = "OK" /\ resp_notice = 0
  /\ line_counts = 0 /\ tries = 0 /\ result = "none"
  /\ parser = "read" /\ rx_notice = 0 /\ wire = <<>>
  /\ todo = <<>> /\ cmds = 0
  /\ answer = "none" /\ orderly = TRUE

(***************************************************************************)
(* The callers.                                                            *)
(***************************************************************************)
CallerAt(c, p) == parser = "wait" /\ client_pc[c] = p

CallerGoto(c, p) == client_pc' = [client_pc EXCEPT ![c] = p]

(* callers that have a command to send *)
Unsent == {c \in Caller : client_pc[c] \in {"lock", "send"}}

(* at_obj_exec_cmd and at_client_obj_wait_connect, up to rt_mutex_take *)
Begin(c, k) ==
  /\ CallerAt(c, "idle") /\ cmds + Cardinality(Unsent) < MaxCmd
  /\ kind' = [kind EXCEPT ![c] = k]
  /\ lock' = Append(lock, c)
  /\ CallerGoto(c, "lock")
  /\ UNCHANGED <<resp, resp_status, resp_notice, line_counts, tries, result,
                 receiver, todo, cmds, exchange>>

(* The owner enters its response object; only at_obj_exec_cmd resets the    *)
(* status.                                                                  *)
Setup(c) ==
  /\ CallerAt(c, "lock") /\ Head(lock) = c
  /\ resp' = IF kind[c] = "exec_no_resp" THEN NoResp ELSE c
  /\ resp_status' = IF kind[c] = "connect" THEN resp_status ELSE "OK"
  /\ line_counts' = 0 /\ tries' = 0 /\ result' = "none"
  /\ CallerGoto(c, "send")
  /\ UNCHANGED <<lock, resp_notice, kind, receiver, todo, cmds, answer, orderly>>

(* the command goes out; at_client_obj_wait_connect sends AT in every turn  *)
Send(c) ==
  /\ CallerAt(c, "send") /\ cmds + Cardinality(Unsent) <= MaxCmd
  /\ kind[c] = "connect" => tries < MaxTries
  /\ tries' = IF kind[c] = "connect" THEN tries + 1 ELSE tries
  /\ line_counts' = 0
  /\ cmds' = cmds + 1
  /\ answer' = "none"
  /\ todo' = Append(todo, [kind |-> kind[c], data |-> 0])
  /\ CallerGoto(c, IF kind[c] = "exec_no_resp" THEN "exit" ELSE "take")
  /\ result' = IF kind[c] = "exec_no_resp" THEN "RT_EOK" ELSE result
  /\ orderly' = (orderly /\ kind[c] # "exec_no_resp")
  /\ UNCHANGED <<client, kind, receiver>>

(* rt_sem_take(client->resp_notice, resp->timeout) *)
TakeNotice(c) ==
  /\ CallerAt(c, "take")
  /\ IF resp_notice > 0
     THEN CallerGoto(c, "granted") /\ resp_notice' = resp_notice - 1
     ELSE CallerGoto(c, "wait") /\ UNCHANGED resp_notice
  /\ UNCHANGED <<lock, resp, resp_status, kind, line_counts, tries, result,
                 receiver, todo, cmds, exchange>>

(* the tick resumes a caller whose time is up *)
Expires(c) ==
  /\ client_pc[c] = "wait"
  /\ CallerGoto(c, "expired")
  /\ orderly' = FALSE
  /\ UNCHANGED <<client, kind, line_counts, tries, result, receiver, todo,
                 cmds, answer>>

(* mutant: the result of the last command is not looked at *)
CheckNothing(c) ==
  /\ CallerAt(c, "granted") \/ CallerAt(c, "expired")
  /\ kind[c] # "connect"
  /\ result' = IF client_pc[c] = "granted" THEN "RT_EOK" ELSE "RT_ETIMEOUT"
  /\ resp_status' = IF client_pc[c] = "expired" THEN "TIMEOUT" ELSE resp_status
  /\ CallerGoto(c, "exit")
  /\ UNCHANGED <<lock, resp, resp_notice, kind, line_counts, tries, receiver,
                 todo, cmds, exchange>>

(* back from rt_sem_take in at_obj_exec_cmd *)
Check(c) ==
  /\ CallerAt(c, "granted") \/ CallerAt(c, "expired")
  /\ kind[c] # "connect"
  /\ result' = CASE client_pc[c] = "expired"   -> "RT_ETIMEOUT"
                 [] resp_status # "OK" -> "RT_ERROR"
                 [] OTHER              -> "RT_EOK"
  /\ resp_status' = IF client_pc[c] = "expired" THEN "TIMEOUT" ELSE resp_status
  /\ CallerGoto(c, "exit")
  /\ UNCHANGED <<lock, resp, resp_notice, kind, line_counts, tries, receiver,
                 todo, cmds, exchange>>

(* back from rt_sem_take in at_client_obj_wait_connect: connected, or the   *)
(* next turn of its loop                                                    *)
ConnectCheck(c) ==
  /\ CallerAt(c, "granted") \/ CallerAt(c, "expired")
  /\ kind[c] = "connect"
  /\ result' = IF client_pc[c] = "granted" THEN "RT_EOK" ELSE result
  /\ CallerGoto(c, IF client_pc[c] = "granted" THEN "delete" ELSE "send")
  /\ UNCHANGED <<client, kind, line_counts, tries, receiver, todo, cmds, exchange>>

(* Its time is up at the beginning of a turn; the time given is taken to    *)
(* last at least until the first turn, which begins at once.                *)
GiveUp(c) ==
  /\ CallerAt(c, "send") /\ kind[c] = "connect" /\ tries > 0
  /\ result' = "RT_ETIMEOUT"
  /\ CallerGoto(c, "delete")
  /\ UNCHANGED <<client, kind, line_counts, tries, receiver, todo, cmds, exchange>>

(* at_delete_resp, while client->resp may still point to the object *)
Delete(c) ==
  /\ CallerAt(c, "delete")
  /\ CallerGoto(c, "deleted")
  /\ UNCHANGED <<client, kind, line_counts, tries, result, receiver, todo, cmds,
                 exchange>>

(* mutant: client->resp is left as it is *)
ExitKeepsResp(c) ==
  /\ CallerAt(c, "exit") \/ CallerAt(c, "deleted")
  /\ lock' = Tail(lock)
  /\ CallerGoto(c, "idle") /\ kind' = [kind EXCEPT ![c] = "exec"]
  /\ UNCHANGED <<resp, resp_status, resp_notice, line_counts, tries,
                 result, receiver, todo, cmds, exchange>>

(* mutant: client->lock is not released *)
ExitKeepsLock(c) ==
  /\ CallerAt(c, "exit") \/ CallerAt(c, "deleted")
  /\ resp' = NoResp
  /\ CallerGoto(c, "idle") /\ kind' = [kind EXCEPT ![c] = "exec"]
  /\ UNCHANGED <<lock, resp_status, resp_notice, line_counts, tries,
                 result, receiver, todo, cmds, exchange>>

(* the end of both functions: client->resp = RT_NULL, rt_mutex_release *)
Exit(c) ==
  /\ CallerAt(c, "exit") \/ CallerAt(c, "deleted")
  /\ resp' = NoResp
  /\ lock' = Tail(lock)
  /\ CallerGoto(c, "idle") /\ kind' = [kind EXCEPT ![c] = "exec"]
  /\ UNCHANGED <<resp_status, resp_notice, line_counts, tries, result,
                 receiver, todo, cmds, exchange>>

(***************************************************************************)
(* The AT server: it answers commands in order, each with data lines and   *)
(* OK or ERROR, or one line for a caller that wants one; late, or never.   *)
(* A line that arrives ends with the receive interrupt, at_client_rx_ind.  *)
(***************************************************************************)
Arrives(line) ==
  /\ wire' = Append(wire, line)
  /\ IF parser = "wait"
     THEN parser' = "reset" /\ UNCHANGED rx_notice
     ELSE rx_notice' = rx_notice + 1 /\ UNCHANGED parser

ServerData ==
  /\ todo # <<>> /\ Head(todo).kind # "exec_one_line"
  /\ Head(todo).data < MaxData
  /\ todo' = [todo EXCEPT ![1].data = @ + 1]
  /\ Arrives("data")
  /\ UNCHANGED <<client, call, cmds, exchange>>

ServerEnd(line) ==
  /\ todo # <<>>
  /\ answer' = IF Len(todo) > 1 THEN answer
                ELSE IF line = "data" THEN "OK" ELSE line
  /\ line = "data" <=> Head(todo).kind = "exec_one_line" /\ line # "ERROR"
  /\ todo' = Tail(todo)
  /\ Arrives(line)
  /\ UNCHANGED <<client, call, cmds, orderly>>

(* a command gets lost *)
ServerDrops ==
  /\ todo # <<>>
  /\ todo' = Tail(todo)
  /\ UNCHANGED <<client, call, receiver, cmds, exchange>>

(***************************************************************************)
(* The parser thread: at_client_getchar for a whole line, client_parser.   *)
(***************************************************************************)
Step(p, q) == parser = p /\ parser' = q

Read ==
  /\ Step("read", IF wire # <<>> THEN "handle" ELSE "take")
  /\ UNCHANGED <<client, call, rx_notice, wire, todo, cmds, exchange>>

(* rt_sem_take(client->rx_notice) *)
TakeRx ==
  /\ Step("take", IF rx_notice > 0 THEN "reset" ELSE "wait")
  /\ rx_notice' = IF rx_notice > 0 THEN rx_notice - 1 ELSE 0
  /\ UNCHANGED <<client, call, wire, todo, cmds, exchange>>

(* mutant: the device is not looked at again after the reset *)
ResetRxAndWait ==
  /\ Step("reset", "take")
  /\ rx_notice' = 0
  /\ UNCHANGED <<client, call, wire, todo, cmds, exchange>>

(* rt_sem_control(client->rx_notice, RT_IPC_CMD_RESET) *)
ResetRx ==
  /\ Step("reset", "read")
  /\ rx_notice' = 0
  /\ UNCHANGED <<client, call, wire, todo, cmds, exchange>>

(* The line in hand: stored if the buffer has room, and then whether it     *)
(* ends the response.                                                       *)
Stored == IF line_counts < BufLines THEN line_counts + 1 ELSE line_counts

EndStatus(c, line) ==
  CASE line = "OK" /\ line_num(c) = 0                        -> "OK"
    [] line = "ERROR"                                        -> "ERROR"
    [] line_num(c) # 0 /\ Stored = line_num(c) /\ line # "ERROR" -> "OK"
    [] OTHER                                                 -> "none"

(* mutant: a complete response stays open for more lines *)
HandleKeepsResp ==
  /\ parser = "handle"
  /\ wire' = Tail(wire)
  /\ IF resp = NoResp
     THEN parser' = "read" /\ UNCHANGED <<resp_status, line_counts>>
     ELSE LET status == EndStatus(resp, Head(wire))
          IN  /\ line_counts' = Stored
              /\ resp_status' = IF status = "none" THEN resp_status ELSE status
              /\ parser' = IF status = "none" THEN "read" ELSE "notify"
  /\ UNCHANGED <<lock, resp, resp_notice, client_pc, kind, tries, result, rx_notice,
                 todo, cmds, answer, orderly>>

Handle ==
  /\ parser = "handle"
  /\ wire' = Tail(wire)
  /\ IF resp = NoResp
     THEN parser' = "read" /\ UNCHANGED <<resp, resp_status, line_counts>>
     ELSE LET status == EndStatus(resp, Head(wire))
          IN  /\ line_counts' = Stored
              /\ IF status = "none"
                 THEN /\ resp_status' = IF line_counts < BufLines
                                        THEN resp_status ELSE "BUFF_FULL"
                      /\ parser' = "read"
                      /\ UNCHANGED resp
                 ELSE /\ resp_status' = status
                      /\ parser' = "notify"
                      /\ resp' = NoResp
  /\ UNCHANGED <<lock, resp_notice, client_pc, kind, tries, result, rx_notice, todo,
                 cmds, answer, orderly>>

(* rt_sem_release(client->resp_notice) *)
Notify ==
  /\ Step("notify", "read")
  /\ IF \E c \in Caller : client_pc[c] = "wait"
     THEN /\ client_pc' = [c \in Caller |-> IF client_pc[c] = "wait" THEN "granted"
                                          ELSE client_pc[c]]
          /\ UNCHANGED resp_notice
     ELSE resp_notice' = resp_notice + 1 /\ UNCHANGED client_pc
  /\ UNCHANGED <<lock, resp, resp_status, kind, line_counts, tries, result,
                 rx_notice, wire, todo, cmds, exchange>>

Parser == Read \/ TakeRx \/ ResetRx \/ Handle \/ Notify

Server == ServerData \/ ServerDrops
          \/ \E line \in {"data", "OK", "ERROR"} : ServerEnd(line)

Continue(c) ==
  Setup(c) \/ Send(c) \/ TakeNotice(c) \/ Check(c) \/ ConnectCheck(c)
    \/ GiveUp(c) \/ Delete(c) \/ Exit(c)

ClientNext ==
  \/ \E c \in Caller : Continue(c) \/ Expires(c) \/ \E k \in Kind : Begin(c, k)
  \/ Parser
  \/ Server

ClientSpec == ClientInit /\ [][ClientNext]_client_vars

(* The threads run, and a tick ends every rt_sem_take(resp_notice). *)
ClientFairSpec ==
  /\ ClientSpec /\ WF_client_vars(Parser)
  /\ \A c \in Caller : WF_client_vars(Continue(c)) /\ WF_client_vars(Expires(c))

(***************************************************************************)
(* Properties                                                              *)
(***************************************************************************)
ClientTypeOK ==
  /\ client_pc \in [Caller -> {"idle", "lock", "send", "take", "wait",
                               "granted", "expired", "exit", "delete",
                               "deleted"}]
  /\ kind \in [Caller -> Kind]
  /\ lock \in Seq(Caller)
  /\ resp \in Caller \cup {NoResp}
  /\ resp_status \in {"OK", "ERROR", "TIMEOUT", "BUFF_FULL"}
  /\ resp_notice \in Nat /\ rx_notice \in Nat
  /\ line_counts \in 0 .. BufLines
  /\ tries \in 0 .. MaxTries
  /\ result \in {"none", "RT_EOK", "RT_ERROR", "RT_ETIMEOUT"}
  /\ parser \in {"read", "take", "wait", "reset", "handle", "notify"}
  /\ wire \in Seq({"data", "OK", "ERROR"})
  /\ todo \in Seq([kind : Kind, data : 0 .. MaxData])
  /\ cmds \in 0 .. MaxCmd
  /\ answer \in {"none", "OK", "ERROR"}
  /\ orderly \in BOOLEAN

(* client->resp is the response object of the call that holds client->lock, *)
(* and never that of a call that has returned and given its object back.    *)
RespOfOwner ==
  /\ ClientTypeOK
  /\ resp # NoResp =>
       lock # <<>> /\ resp = Head(lock) /\ client_pc[resp] \notin {"idle", "lock"}

(* The parser does not sleep on a line that has arrived: the reset of       *)
(* rx_notice may take away the token of a line that comes just before it.   *)
NoLineMissed == parser = "wait" => wire = <<>>

(* As long as every command waits for its response and none runs out of     *)
(* time, a call returns the end of the answer to its own command.           *)
OrderlyAnswers ==
  orderly =>
    \A c \in Caller :
      client_pc[c] \in {"exit", "deleted"} /\ result \in {"RT_EOK", "RT_ERROR"} =>
        /\ answer # "none"
        /\ kind[c] # "connect" => (result = "RT_EOK" <=> answer = "OK")

(* A notice is left over only by a call that ran out of time, at most one   *)
(* at a time: later calls do not add to it.                                 *)
NoticeAccounted ==
  /\ resp_notice <= 2
  /\ lock = <<>> => resp_notice <= 1
  /\ lock = <<>> /\ orderly => resp_notice = 0

(* Every call returns, whatever the server answers. *)
CallReturns == \A c \in Caller : client_pc[c] # "idle" ~> client_pc[c] = "idle"
=============================================================================
