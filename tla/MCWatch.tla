------------------------------ MODULE MCWatch ------------------------------
(***************************************************************************)
(* A watch session with two keys: two paths, or two kinds of one path.     *)
(***************************************************************************)
EXTENDS Watch

(* One key alone, both at once, or nothing but ignored paths.              *)
RawEvents == {{}, {1}, {2}, {1, 2}}
=============================================================================
