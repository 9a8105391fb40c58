------------------------------- MODULE HttpLogger -------------------------------
(*******************************************************************************)
(* The log of the HTTP server: every process sends its lines to the message    *)
(* queue /logger, which is bounded, and the logger process writes them out.    *)
(* What a line says is left out; lines counts those in the queue.              *)
(*******************************************************************************)
EXTENDS Integers

CONSTANT LogMax   \* mq_maxmsg of /logger

ASSUME LogAssumption == LogMax \in Nat \ {0}

VARIABLES
  lines,        \* number of messages in /logger
  logger,       \* where the logger process is
  logger_stop   \* its _should_stop

logger_vars == <<lines, logger, logger_stop>>

LoggerTypeOK ==
  /\ lines \in 0 .. LogMax
  /\ logger \in {"check", "mq_receive", "log", "ended"}
  /\ logger_stop \in BOOLEAN

LoggerInit == lines = 0 /\ logger = "check" /\ logger_stop = FALSE

Full == lines = LogMax

(* mq_send to /logger, which blocks while the queue is full.                   *)
mq_send == ~Full /\ lines' = lines + 1

(* The loop of start_logger_process.                                           *)
CheckLogger ==
  /\ logger = "check"
  /\ logger' = IF logger_stop THEN "ended" ELSE "mq_receive"
  /\ UNCHANGED <<lines, logger_stop>>

ReceiveLine ==
  /\ logger = "mq_receive"
  /\ lines > 0
  /\ lines' = lines - 1
  /\ logger' = "log"
  /\ UNCHANGED logger_stop

WriteLine ==
  /\ logger = "log"
  /\ logger' = "check"
  /\ UNCHANGED <<lines, logger_stop>>

LoggerStep == CheckLogger \/ ReceiveLine \/ WriteLine

(* SIGQUIT to the logger: it interrupts mq_receive if the logger sleeps there, *)
(* and is noticed at the next test if it does not yet.                         *)
SigquitLogger ==
  /\ logger_stop' = TRUE
  /\ \/ UNCHANGED logger
     \/ logger = "mq_receive" /\ lines = 0 /\ logger' = "check"
  /\ UNCHANGED lines
===============================================================================
