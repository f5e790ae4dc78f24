------------------------------- MODULE Groups -------------------------------
(***************************************************************************)
(* Which wrapper a backend runs for which benchmark: the #if chains at the *)
(* top of include/pstl/benchmarks/*/group.h, gathered by                   *)
(* pstl-benchmarks.h.                                                      *)
(***************************************************************************)
EXTENDS Benchmarks, Naturals

(* One branch per PSTL_BENCH_BACKEND_IS_ macro; every other backend (TBB,   *)
(* GNU, HPX, ...) takes the last one.                                      *)
Chain(onedpl_gpu, acpp_onedpl, acpp_stdpar, nvhpc_cuda, other) ==
  [ONEDPL_GPU |-> onedpl_gpu, ACPP_ONEDPL |-> acpp_onedpl,
   ACPP_STDPAR |-> acpp_stdpar, NVHPC_CUDA |-> nvhpc_cuda, GENERIC |-> other]

sort_group == Chain(sort_utils_onedpl_gpu, sort_utils_acpp_onedpl,
  sort_utils_acpp_stdpar, sort_utils_nvhpc_cuda, sort_utils)

partial_sort_group == Chain(partial_sort_utils_onedpl_gpu, partial_sort_utils_acpp_onedpl,
  partial_sort_utils_acpp_stdpar, partial_sort_utils_nvhpc_cuda, partial_sort_utils)

partition_group == Chain(partition_utils_onedpl_gpu, partition_utils_acpp_onedpl,
  partition_utils_acpp_stdpar, partition_utils_nvhpc_cuda, partition_utils)

(* A chain that forgets the backend: it falls through to the host sorts.   *)
merge_group_FallThrough == Chain(merge_utils, merge_utils,
  merge_utils_acpp_stdpar, merge_utils_nvhpc_cuda, merge_utils)

merge_group == Chain(merge_utils_onedpl_gpu, merge_utils_acpp_onedpl,
  merge_utils_acpp_stdpar, merge_utils_nvhpc_cuda, merge_utils)

inplace_merge_group == Chain(inplace_merge_utils_onedpl_gpu, inplace_merge_utils_acpp_onedpl,
  inplace_merge_utils_acpp_stdpar, inplace_merge_utils_nvhpc_cuda, inplace_merge_utils)

set_difference_group == Chain(set_difference_utils_onedpl_gpu, set_difference_utils_acpp_onedpl,
  set_difference_utils_acpp_stdpar, set_difference_utils_nvhpc_cuda, set_difference_utils)

set_intersection_group == Chain(set_intersection_utils_onedpl_gpu,
  set_intersection_utils_acpp_onedpl, set_intersection_utils_acpp_stdpar,
  set_intersection_utils_nvhpc_cuda, set_intersection_utils)

(* All the wrappers of a binary built for backend b.                       *)
pstl_benchmarks(b) ==
  [adjacent_difference |-> adjacent_difference_utils, adjacent_find |-> adjacent_find_utils,
   all_of |-> all_of_utils, any_of |-> any_of_utils, copy |-> copy_utils,
   copy_if |-> copy_if_utils, copy_n |-> copy_n_utils, count |-> count_utils,
   count_if |-> count_if_utils, equal |-> equal_utils,
   exclusive_scan |-> exclusive_scan_utils, fill |-> fill_utils, find |-> find_utils,
   for_each |-> for_each_utils, generate |-> generate_utils, includes |-> includes_utils,
   inclusive_scan |-> inclusive_scan_utils, inplace_merge |-> inplace_merge_group[b],
   is_sorted |-> is_sorted_utils,
   lexicographical_compare |-> lexicographical_compare_utils,
   max_element |-> max_element_utils, merge |-> merge_group[b],
   min_element |-> min_element_utils, mismatch |-> mismatch_utils,
   none_of |-> none_of_utils, partial_sort |-> partial_sort_group[b],
   partition |-> partition_group[b], reduce |-> reduce_utils, search |-> search_utils,
   set_difference |-> set_difference_group[b],
   set_intersection |-> set_intersection_group[b], sort |-> sort_group[b],
   transform |-> transform_utils, transform_exclusive_scan |-> transform_exclusive_scan_utils,
   transform_inclusive_scan |-> transform_inclusive_scan_utils,
   transform_reduce |-> transform_reduce_utils]

(* The binaries whose bench_input is a reference to the vector, and those  *)
(* configured with NO_USM.                                                 *)
ReferenceBuilds ==
  Chain(pstl_benchmarks("ONEDPL_GPU"), pstl_benchmarks("ACPP_ONEDPL"),
        pstl_benchmarks("ACPP_STDPAR"), pstl_benchmarks("NVHPC_CUDA"), pstl_benchmarks("GENERIC"))

NoUsmBuilds ==
  [ONEDPL_GPU |-> pstl_benchmarks("ONEDPL_GPU"), ACPP_ONEDPL |-> pstl_benchmarks("ACPP_ONEDPL")]

-----------------------------------------------------------------------------
(* The vectors, scalars and offsets that the wrappers name.                *)
Locations ==
  {"data", "data1", "data2", "idx", "index", "input", "last_first_offset", "last_idx",
   "last_index", "last_offset", "last_output", "last_value", "output", "subset", "value",
   "verdict"}

(* The contents that the wrappers of some builds name.                     *)
StepsOf(p) ==
  LET InPhase(c) == {c[i] : i \in 1 .. Len(c)}
  IN InPhase(p.pre) \union InPhase(p.body) \union InPhase(p.post) \union InPhase(p.check)

ProgramsOf(builds) ==
  UNION {{builds[b][k] : k \in DOMAIN builds[b]} : b \in DOMAIN builds}

ContentsOf(builds) ==
  UNION {UNION {{s.gives[v] : v \in DOMAIN s.gives} : s \in StepsOf(p)} : p \in ProgramsOf(builds)}
=============================================================================
