---- MODULE MCChatDaemon ----
(* One command and one message, handled by two tasks of the daemon. *)
EXTENDS ChatDaemon

CONSTANTS c1, m1, t1, t2

OneCommand == {c1}
OneMessage == {m1}
TwoTasks == {t1, t2}
====
