---------------------------- MODULE MCDaqPipeline -----------------------------
(* The processes of pattern_checking.py: the four that record and serve    *)
(* commands while it reconfigures the sensor.                              *)
EXTENDS DaqPipeline

PatternProcesses == {"store", "server", "send", "recv"}

(* Those that take part in asking for buffers; Storage waits for nobody.    *)
RequestProcesses == PatternProcesses \ {"store"}
=============================================================================
