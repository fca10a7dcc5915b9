----------------------------- MODULE MCLifecycle ------------------------------
(* Instances of Lifecycle.  The handlers in MCSafe touch only what outlives    *)
(* sysctl_ctx_free(); the others are let loose on a detach one at a time.      *)
EXTENDS Lifecycle

MCDeferred == {"interval", "bulk_writer_flood", "reset_delayed", "cb_used"}
MCSemaphore == {"writers_limit", "writers_sema_value"}
MCSafe == {"cb_used", "cfg", "reset", "bytes_written_10s"}
MCIOKinds == MCSafe \cup MCSemaphore
MCNone == {}
MCInterval == {"interval"}
MCTasks == {"bulk_writer_flood", "reset_delayed"}
==============================================================================
