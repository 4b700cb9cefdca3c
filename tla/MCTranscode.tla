----------------------------- MODULE MCTranscode -----------------------------
(* Two jobs, with the same name or with different ones.                    *)
EXTENDS Transcode
CONSTANTS u, v
MCWorkers == {u, v}
=============================================================================
