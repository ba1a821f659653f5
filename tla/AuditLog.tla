------------------------------ MODULE AuditLog ------------------------------
(***************************************************************************)
(* services/audit.py: the handlers of the logger "redakt.audit", set up    *)
(* anew each time the application starts in the process, and the emission  *)
(* of an entry to all of them.                                             *)
(*                                                                         *)
(* A handler that cannot write does not raise: Handler.emit of the logging *)
(* library reports the error by itself and returns, so the warning of      *)
(* _emit_audit is for what goes wrong outside of the handlers only.        *)
(***************************************************************************)
EXTENDS Naturals, Sequences, FiniteSets

CONSTANTS
  AuditFile,   \* whether audit_log_file is set
  MaxSetups    \* bound: calls of setup_logging

ASSUME SetupAssumption == AuditFile \in BOOLEAN /\ MaxSetups \in Nat

VARIABLES
  setups,     \* calls of setup_logging so far
  handlers,   \* the handlers of the logger
  open,       \* handlers of files that are not closed
  written,    \* sink -> the entries written to it
  failed      \* sinks that an entry could not be written to

auditVars == << setups, handlers, open, written, failed >>

\* StreamHandler() writes to the standard error stream
Sinks == { "stderr", "file" }
Handler(sink) == [ sink |-> sink, setup |-> setups + 1 ]

AuditInit ==
  /\ setups = 0
  /\ handlers = {} /\ open = {}
  /\ written = [ s \in Sinks |-> << >> ]
  /\ failed = {}

\* mutant: handlers.clear() without handler.close()
SetupWithoutClose ==
  /\ setups < MaxSetups
  /\ setups' = setups + 1
  /\ \E added \in IF AuditFile THEN { {}, { Handler("file") } } ELSE { {} } :
       /\ handlers' = { Handler("stderr") } \cup added
       /\ open' = open \cup added
  /\ UNCHANGED << written, failed >>

\* mutant: the handlers of the last call stay
SetupAppends ==
  /\ setups < MaxSetups
  /\ setups' = setups + 1
  /\ \E added \in IF AuditFile THEN { {}, { Handler("file") } } ELSE { {} } :
       /\ handlers' = handlers \cup { Handler("stderr") } \cup added
       /\ open' = open \cup added
  /\ UNCHANGED << written, failed >>

\* the file's handler may fail to be made: OSError, and the other one goes on alone
setup_logging ==
  /\ setups < MaxSetups
  /\ setups' = setups + 1
  /\ \E added \in IF AuditFile THEN { {}, { Handler("file") } } ELSE { {} } :
       /\ handlers' = { Handler("stderr") } \cup added
       /\ open' = (open \ handlers) \cup added
  /\ UNCHANGED << written, failed >>

\* each handler writes a line or fails to, whatever the others do
Emit(entry) ==
  /\ \E working \in SUBSET handlers :
       /\ failed' = failed \cup { h.sink : h \in handlers \ working }
       /\ written' = [ s \in Sinks |->
            written[s] \o [ i \in 1 .. Cardinality({ h \in working : h.sink = s }) |-> entry ] ]
  /\ UNCHANGED << setups, handlers, open >>
=============================================================================
