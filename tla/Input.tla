------------------------------- MODULE Input --------------------------------
(***************************************************************************)
(* The input of one of the algorithms around the runtime: the workers of   *)
(* Validate and Init, a Caddyfile, the options that the thread budget is   *)
(* made of, the URL of a request and the files below the document root,    *)
(* the pattern of a watched directory, or a value.                         *)
(***************************************************************************)
VARIABLE input
=============================================================================
