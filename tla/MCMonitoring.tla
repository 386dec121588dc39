----------------------------- MODULE MCMonitoring -----------------------------
(* One pool with one usage bucket, and a scheduled task that fails.            *)
EXTENDS Monitoring

CONSTANTS tank, c1
===============================================================================
