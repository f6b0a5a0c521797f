------------------------------ MODULE PgClient ------------------------------
(***************************************************************************)
(* The PostgreSQL client for coroutines, classes Object and Statement of   *)
(* ext-src/openswoole_postgres_coro.cc: libpq in its non-blocking mode,    *)
(* its descriptor in the reactor while a coroutine waits for it, and       *)
(* results that statements own and free.                                   *)
(*                                                                         *)
(* One coroutine at a time uses a connection, as libpq demands.  Commands  *)
(* are numbered and a result carries the number of its command.            *)
(***************************************************************************)
EXTENDS Naturals, FiniteSets

CONSTANTS MaxCommands,  \* commands a program sends
          Stmts,        \* statement objects
          NoStmt

VARIABLES
  conn,       \* "none", "connecting", "ok"
  pgcall,     \* the call in progress: "idle", "connect", "query", "prepare", "execute", "metaData", "dealloc"
  subject,    \* the statement the call is about
  event,      \* what the socket waits for in the reactor: "none", "read", "write"
  co,         \* a coroutine is to be resumed
  request_type, request_success,
  cmd,        \* libpq: the number of the command in progress, or 0
  unsent,     \* libpq: PQflush has more to send
  reply,      \* libpq: "none", "ok" or "error" has arrived
  sent,       \* commands sent so far
  result,     \* object->result, the number of a command or 0
  stmts,      \* the statements; by: history, the command that made the result
  cleared,    \* results freed
  twice       \* history: a result was freed twice

libpq == <<cmd, unsent, reply>>
pgVars == <<conn, pgcall, subject, event, co, request_type, request_success, libpq, sent, result,
            stmts, cleared, twice>>

Fresh == [alive |-> FALSE, named |-> FALSE, result |-> 0, by |-> 0]

PgInit ==
  /\ conn = "none" /\ pgcall = "idle" /\ subject = NoStmt
  /\ event = "none" /\ co = FALSE
  /\ request_type = "NORMAL_QUERY" /\ request_success = FALSE
  /\ cmd = 0 /\ unsent = FALSE /\ reply = "none" /\ sent = 0
  /\ result = 0 /\ stmts = [s \in Stmts |-> Fresh]
  /\ cleared = {} /\ twice = FALSE

(* PQclear of every result in rs; freeing none is a no-op.                 *)
PQclear(rs) ==
  /\ cleared' = cleared \cup (rs \ {0})
  /\ twice' = (twice \/ (rs \ {0}) \cap cleared # {})

(* yield(): the coroutine waits with the socket in the reactor, and leaves *)
(* both when it is resumed, whoever resumes it.                            *)
Yield(e) == event' = e /\ co' = TRUE
Return == pgcall' = "idle" /\ subject' = NoStmt /\ event' = "none" /\ co' = FALSE

-----------------------------------------------------------------------------
(* connect() and reset(), which starts over on the same object; a pending  *)
(* command is forgotten.                                                   *)
pg_connect ==
  /\ pgcall = "idle" /\ conn \in {"none", "ok"}
  /\ conn' = "connecting" /\ pgcall' = "connect"
  /\ cmd' = 0 /\ unsent' = FALSE /\ reply' = "none"
  /\ Yield("write")
  /\ UNCHANGED <<subject, request_type, request_success, sent, result, stmts, cleared, twice>>

(* connect_callback: libpq asks for another event, or is done.             *)
connect_callback ==
  /\ conn = "connecting"
  /\ \/ /\ event' \in {"read", "write"}
        /\ UNCHANGED <<conn, pgcall, subject, co, request_success>>
     \/ \E ok \in BOOLEAN :
          /\ request_success' = ok
          /\ conn' = IF ok THEN "ok" ELSE "none"
          /\ Return
  /\ UNCHANGED <<request_type, libpq, sent, result, stmts, cleared, twice>>

(* PQsendX after the results of an earlier command have been drained, then *)
(* wait_write_ready().                                                     *)
SendCommand(type, s, request) ==
  /\ conn = "ok" /\ pgcall = "idle"
  /\ sent < MaxCommands
  /\ request_type' = request
  /\ \/ (* libpq refuses *)
        /\ cmd' = 0 /\ unsent' = FALSE /\ reply' = "none"
        /\ UNCHANGED <<pgcall, subject, event, co, sent>>
     \/ /\ sent' = sent + 1
        /\ cmd' = sent + 1 /\ reply' = "none"
        /\ unsent' \in BOOLEAN
        /\ pgcall' = type /\ subject' = s
        /\ Yield(IF unsent' THEN "write" ELSE "read")

query ==
  /\ \E s \in Stmts : ~stmts[s].alive
  /\ SendCommand("query", NoStmt, "NORMAL_QUERY")
  /\ UNCHANGED <<conn, request_success, result, stmts, cleared, twice>>

prepare ==
  /\ \E s \in Stmts : ~stmts[s].alive
  /\ SendCommand("prepare", NoStmt, "PREPARE")
  /\ UNCHANGED <<conn, request_success, result, stmts, cleared, twice>>

(* metaData() does not wait for the buffer to be sent, and waits for an    *)
(* answer even when libpq refused the query.                               *)
metaData ==
  /\ conn = "ok" /\ pgcall = "idle" /\ sent < MaxCommands
  /\ request_type' = "META_DATA"
  /\ pgcall' = "metaData" /\ Yield("read")
  /\ reply' = "none" /\ unsent' = FALSE
  /\ sent' = sent + 1 /\ cmd' \in {0, sent + 1}
  /\ UNCHANGED <<conn, subject, request_success, result, stmts, cleared, twice>>

(* execute() drains nothing: libpq refuses it while a command is pending.  *)
execute(s) ==
  /\ stmts[s].alive /\ stmts[s].named
  /\ IF cmd = 0 THEN SendCommand("execute", s, "NORMAL_QUERY")
     ELSE /\ conn = "ok" /\ pgcall = "idle"
          /\ request_type' = "NORMAL_QUERY"
          /\ UNCHANGED <<pgcall, subject, event, co, libpq, sent>>
  /\ UNCHANGED <<conn, request_success, result, stmts, cleared, twice>>

(* The destructor of a statement frees its result and, for a prepared one, *)
(* has the server forget it.                                               *)
dtor(s) ==
  /\ stmts[s].alive /\ pgcall = "idle"
  /\ PQclear({stmts[s].result})
  /\ stmts' = [stmts EXCEPT ![s] = Fresh]
  /\ IF conn = "ok" /\ stmts[s].named
     THEN SendCommand("dealloc", NoStmt, "NORMAL_QUERY")
     ELSE UNCHANGED <<pgcall, subject, event, co, request_type, libpq, sent>>
  /\ UNCHANGED <<conn, request_success, result>>

pg_close ==
  /\ pgcall = "idle" /\ conn = "ok"
  /\ conn' = "none"
  /\ cmd' = 0 /\ unsent' = FALSE /\ reply' = "none"
  /\ UNCHANGED <<pgcall, subject, event, co, request_type, request_success, sent, result, stmts,
                 cleared, twice>>

-----------------------------------------------------------------------------
(* The server answers the command in progress once it has all of it.       *)
pg_answers ==
  /\ cmd # 0 /\ ~unsent /\ reply = "none"
  /\ reply' \in {"ok", "error"}
  /\ UNCHANGED <<conn, pgcall, subject, event, co, request_type, request_success, cmd, unsent, sent,
                 result, stmts, cleared, twice>>

(* The socket is writable: yield() judges the wait by request_success of   *)
(* the request before, so that after one that failed the call gives up     *)
(* here.                                                                   *)
onWritable ==
  /\ conn = "ok" /\ event = "write"
  /\ IF request_success
     THEN /\ unsent' \in BOOLEAN
          /\ Yield(IF unsent' THEN "write" ELSE "read")
          /\ UNCHANGED <<pgcall, subject>>
     ELSE Return /\ UNCHANGED unsent
  /\ UNCHANGED <<conn, request_type, request_success, cmd, reply, sent, result, stmts, cleared,
                 twice>>

(* A statement made by the command in progress, with what object->result   *)
(* holds by then.                                                          *)
NewStmt(named) ==
  \E s \in Stmts :
    /\ ~stmts[s].alive
    /\ stmts' = [stmts EXCEPT ![s] = [alive |-> TRUE, named |-> named,
                                      result |-> IF named THEN 0 ELSE result',
                                      by |-> IF named THEN 0 ELSE cmd]]

(* What query(), execute() and the destructor do when yield() returns.     *)
AfterQuery ==
  IF ~request_success' THEN UNCHANGED stmts
  ELSE CASE pgcall = "query" -> NewStmt(FALSE)
         [] pgcall = "execute" -> stmts' = [stmts EXCEPT ![subject].result = result',
                                                         ![subject].by = cmd]
         [] pgcall = "dealloc" -> UNCHANGED stmts

query_result_parse_Stale ==
  \/ /\ reply = "ok"
     /\ request_success' = TRUE
     /\ IF pgcall = "dealloc" THEN PQclear({cmd}) /\ result' = 0 ELSE PQclear({}) /\ result' = cmd
     /\ AfterQuery
  \/ /\ reply = "error"
     /\ UNCHANGED <<request_success, result>>
     /\ PQclear({cmd})
     /\ AfterQuery
query_result_parse ==
  \/ /\ reply = "ok"
     /\ request_success' = TRUE
     /\ IF pgcall = "dealloc" THEN PQclear({cmd}) /\ result' = 0 ELSE PQclear({}) /\ result' = cmd
     /\ AfterQuery
  \/ /\ reply = "error"
     /\ request_success' = FALSE
     /\ PQclear({cmd})
     /\ UNCHANGED result
     /\ AfterQuery

prepare_result_parse ==
  /\ request_success' = (reply = "ok")
  /\ PQclear({cmd})
  /\ UNCHANGED result
  /\ IF reply = "ok" THEN NewStmt(TRUE) ELSE UNCHANGED stmts

(* metaData() of a table that does not exist is not resumed and waits on.  *)
meta_data_result_parse ==
  /\ UNCHANGED <<request_success, stmts, cleared, twice>>
  /\ \/ reply = "ok" /\ result' = cmd /\ Return
     \/ reply = "error" /\ UNCHANGED <<pgcall, subject, event, co, result>>

(* onReadable reads all of the answer.                                     *)
onReadable ==
  /\ conn = "ok" /\ event = "read" /\ reply # "none"
  /\ cmd' = 0 /\ reply' = "none"
  /\ \/ request_type = "NORMAL_QUERY" /\ query_result_parse /\ Return
     \/ request_type = "PREPARE" /\ prepare_result_parse /\ Return
     \/ request_type = "META_DATA" /\ meta_data_result_parse
  /\ UNCHANGED <<conn, request_type, unsent, sent>>

(* A timeout or a cancel ends the wait; what was sent stays pending.       *)
pg_gives_up ==
  /\ co
  /\ Return
  /\ conn' = IF conn = "connecting" THEN "none" ELSE conn
  /\ UNCHANGED <<request_type, request_success, libpq, sent, result, stmts, cleared, twice>>

PgNext ==
  \/ pg_connect \/ connect_callback \/ query \/ prepare \/ metaData \/ pg_close
  \/ \E s \in Stmts : execute(s) \/ dtor(s)
  \/ pg_answers \/ onWritable \/ onReadable \/ pg_gives_up

PgSpec == PgInit /\ [][PgNext]_pgVars

-----------------------------------------------------------------------------
(* A statement holds the result of the command it was last made or         *)
(* executed by and of no other, until its destructor frees it, which       *)
(* happens to every result at most once.  A coroutine is waiting exactly   *)
(* while the socket is in the reactor.                                     *)
OwnResult ==
  /\ \A s \in Stmts : stmts[s].alive => stmts[s].result = stmts[s].by
  /\ ~twice
  /\ \A s \in Stmts : stmts[s].result \notin cleared
  /\ \A s, t \in Stmts : s # t /\ stmts[s].result # 0 => stmts[s].result # stmts[t].result
  /\ co <=> event # "none"
  /\ co <=> pgcall # "idle"

=============================================================================
