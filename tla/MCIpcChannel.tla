----------------------------- MODULE MCIpcChannel -----------------------------
(* Small instances of IpcChannel. *)
EXTENDS IpcChannel, TLC
=============================================================================
