----------------------------- MODULE MCIsrgRust -----------------------------
(* Small instances of IsrgRust for TLC. *)
EXTENDS IsrgRust

(* "bad" decompresses to what the crate cannot load. *)
MCUninitialisable == {"bad"} \X _VERSIONS
=============================================================================
