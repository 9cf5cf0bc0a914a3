---------------------------- MODULE MCLifecycle -----------------------------
(***************************************************************************)
(* Values of the constants of Lifecycle for TLC: every kind of             *)
(* configuration there is, with times in any relation.                     *)
(***************************************************************************)
EXTENDS Lifecycle

MCConfigs == [complete : BOOLEAN, key : {"missing", "garbled", "good"},
              mode : {"known", "unknown"},
              brokers : {"blank", "commas", "named"},
              lease : 0..2, publish : 0..2]
=============================================================================
