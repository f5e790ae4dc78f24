------------------------------ MODULE InputGen ------------------------------
(***************************************************************************)
(* utils/input_gen.h: the values of the vectors the benchmarks work on.    *)
(* Element i of a vector v is v[i + 1] here.                               *)
(***************************************************************************)
EXTENDS ElemT, Sequences

(* val = start + i * increment, from the distance of val to the first      *)
(* element; the product and the sum are values of the element type.        *)
body(T, start, increment, i) == Stored(T, start + Stored(T, Stored(T, i) * increment))

generate_increment(T, size, start, increment) ==
  [k \in 1 .. size |-> body(T, start, increment, k - 1)]

(* generate_increment(execution_policy, size).                             *)
generate_iota(T, size) == generate_increment(T, size, 1, 1)

(* The second input of the set operations and of search: size / 2 elements *)
(* from size / 4 on.                                                       *)
generate_sub(T, size) == generate_increment(T, size \div 2, Stored(T, size \div 4), 1)

(* make_buffer(size, init_val).                                            *)
make_buffer(size, init_val) == [k \in 1 .. size |-> init_val]
=============================================================================
