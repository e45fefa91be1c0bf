--------------------------- MODULE MC_DagGenerator ---------------------------
(* generate_dag on the module's own func_list less one function (line 86) *)
(* and generate_arg_map with key_space = 1, the smallest with two keys.   *)
EXTENDS DagGenerator

CONSTANTS f1, f2, f3, f4

MC_FunctionList == {f1, f2, f3, f4}
=============================================================================
