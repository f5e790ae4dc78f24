----------------------------- MODULE Benchmarks -----------------------------
(***************************************************************************)
(* The 36 benchmark wrappers of include/pstl/benchmarks as programs of     *)
(* module Wrapper: one definition per *_utils*.h file, named after it.     *)
(*                                                                         *)
(* Contents are what the wrappers tell apart.  "iota" is the vector        *)
(* 1, 2, ..., size of generate_increment, "sub" the size/2 elements from   *)
(* size/4 on; the rest are named where they are produced.  A location      *)
(* keeps the name its variable has in the file.                            *)
(***************************************************************************)
EXTENDS Sequences, FiniteSets, TLC


Nothing == <<>>   \* the function that is defined nowhere

Does(op, n, g) == [op |-> op, on |-> DOMAIN n \union DOMAIN g, needs |-> n, gives |-> g]
Raw(n, g) == Does("raw", n, g)
Kernel(n, g) == Does("kernel", n, g)
Timed(n, g) == Does("timed", n, g)

(* { auto && h = bench.host_view(); ... } over the bench_inputs vs.        *)
OnView(op, vs) == [op |-> op, on |-> vs, needs |-> Nothing, gives |-> Nothing]
HostBlock(vs, n, g) == <<OnView("open", vs), Does("host", n, g), OnView("close", vs)>>

Verify(n) == Raw(n, [verdict |-> "passed"])

Program(lift, pre, body, post, check) ==
  [lift |-> lift, pre |-> pre, body |-> body, post |-> post, check |-> check]

-----------------------------------------------------------------------------
(* Read-only algorithms: F returns a value and leaves the input alone.     *)

(* generate_increment, F over it, a verification that recomputes F.        *)
Reads(checked) ==
  Program({"input"},
    <<Raw(Nothing, [input |-> "iota"])>>,
    <<Timed([input |-> {"iota"}], [last_output |-> "result"])>>,
    <<>>,
    <<Verify(IF checked THEN [input |-> {"iota"}, last_output |-> {"result"}]
                        ELSE [last_output |-> {"result"}])>>)

all_of_utils == Reads(TRUE)
none_of_utils == Reads(FALSE)
count_if_utils == Reads(TRUE)
reduce_utils == Reads(TRUE)
transform_reduce_utils == Reads(TRUE)
is_sorted_utils == Reads(TRUE)

(* The host view is released before F gets the buffer (any_of_utils.h:42). *)
any_of_utils_ViewHeld ==
  Program({"input"},
    <<Raw(Nothing, [input |-> "iota"])>>,
    <<OnView("open", {"input"}), Does("host", [input |-> {"iota"}], [value |-> "element"]),
      Timed([input |-> {"iota"}, value |-> {"element"}], [last_output |-> "result"]),
      OnView("close", {"input"})>>,
    <<>>,
    <<Verify([last_output |-> {"result"}])>>)

any_of_utils ==
  Program({"input"},
    <<Raw(Nothing, [input |-> "iota"])>>,
    HostBlock({"input"}, [input |-> {"iota"}], [value |-> "element"])
      \o <<Timed([input |-> {"iota"}, value |-> {"element"}], [last_output |-> "result"])>>,
    <<>>,
    <<Verify([last_output |-> {"result"}])>>)

count_utils ==
  Program({"input"},
    <<Raw(Nothing, [input |-> "iota"])>>,
    <<Raw(Nothing, [value |-> "drawn", last_value |-> "drawn"]),
      Timed([input |-> {"iota"}, value |-> {"drawn"}], [last_output |-> "result"])>>,
    <<>>,
    <<Verify([input |-> {"iota"}, last_value |-> {"drawn"}, last_output |-> {"result"}])>>)

find_utils ==
  Program({"input"},
    <<Raw(Nothing, [input |-> "iota"])>>,
    HostBlock({"input"}, [input |-> {"iota"}], [value |-> "element"])
      \o <<Raw([value |-> {"element"}], [last_value |-> "element"]),
           Timed([input |-> {"iota"}, value |-> {"element"}], [last_offset |-> "of_value"])>>,
    <<>>,
    <<Verify([input |-> {"iota"}, last_value |-> {"element"}, last_offset |-> {"of_value"}])>>)

(* One shuffle before the bench_input is lifted serves all iterations.     *)
ExtremeElement ==
  Program({"input"},
    <<Raw(Nothing, [input |-> "iota"]), Raw([input |-> {"iota"}], [input |-> "shuffled"])>>,
    <<Timed([input |-> {"shuffled"}], [last_offset |-> "of_extreme"])>>,
    <<>>,
    <<Verify([input |-> {"shuffled"}, last_offset |-> {"of_extreme"}])>>)

max_element_utils == ExtremeElement
min_element_utils == ExtremeElement

includes_utils ==
  Program({"input", "subset"},
    <<Raw(Nothing, [input |-> "iota", subset |-> "sub"])>>,
    <<Timed([input |-> {"iota"}, subset |-> {"sub"}], [last_output |-> "result"])>>,
    <<>>,
    <<Verify([input |-> {"iota"}, subset |-> {"sub"}, last_output |-> {"result"}])>>)

search_utils ==
  Program({"data1", "data2"},
    <<Raw(Nothing, [data1 |-> "iota", data2 |-> "sub"])>>,
    <<Timed([data1 |-> {"iota"}, data2 |-> {"sub"}], [last_offset |-> "of_sub"])>>,
    <<>>,
    <<Verify([data1 |-> {"iota"}, data2 |-> {"sub"}, last_offset |-> {"of_sub"}])>>)

lexicographical_compare_utils ==
  Program({"data1", "data2"},
    <<Raw(Nothing, [data1 |-> "iota", data2 |-> "iota"])>>,
    <<Timed([data1 |-> {"iota"}, data2 |-> {"iota"}], [last_output |-> "result"])>>,
    <<>>,
    <<Verify([data1 |-> {"iota"}, data2 |-> {"iota"}, last_output |-> {"result"}])>>)

(* What F returns is dropped: the verification compares the vectors.       *)
equal_utils ==
  Program({"data1", "data2"},
    <<Raw(Nothing, [data1 |-> "iota", data2 |-> "iota"])>>,
    <<Timed([data1 |-> {"iota"}, data2 |-> {"iota"}], Nothing)>>,
    <<>>,
    <<Verify([data1 |-> {"iota"}, data2 |-> {"iota"}])>>)

-----------------------------------------------------------------------------
(* Algorithms that write an output vector of their own.  The output starts *)
(* as get_vector leaves it ("zeros") or as a copy of the input.            *)
Writes(initially, result) ==
  Program({"input", "output"},
    <<Raw(Nothing, [input |-> "iota"]), Raw([input |-> {"iota"}], [output |-> initially])>>,
    <<Timed([input |-> {"iota"}], [output |-> result])>>,
    <<>>,
    <<Verify([input |-> {"iota"}, output |-> {result}])>>)

copy_utils == Writes("zeros", "iota")
copy_n_utils == Writes("zeros", "iota")
adjacent_difference_utils == Writes("zeros", "differences")
inclusive_scan_utils == Writes("zeros", "inclusive_sums")
exclusive_scan_utils == Writes("zeros", "exclusive_sums")
transform_utils == Writes("iota", "transformed")
transform_inclusive_scan_utils == Writes("iota", "inclusive_sums")
transform_exclusive_scan_utils == Writes("iota", "exclusive_sums")

(* copy_if leaves the tail of output as it was, and the verification       *)
(* compares it with the tail of a fresh vector.                            *)
copy_if_utils ==
  Program({"input", "output"},
    <<Raw(Nothing, [input |-> "iota", output |-> "zeros"])>>,
    <<Timed([input |-> {"iota"}, output |-> {"zeros", "evens_then_zeros"}],
            [output |-> "evens_then_zeros"])>>,
    <<>>,
    <<Verify([input |-> {"iota"}, output |-> {"evens_then_zeros"}])>>)

(* Algorithms that overwrite their vector whatever it holds.               *)
Overwrites(v, result) ==
  Program({v},
    <<Raw(Nothing, v :> "iota")>>,
    <<Timed(Nothing, v :> result)>>,
    <<>>,
    <<Verify(v :> {result})>>)

fill_utils == Overwrites("input", "zeros")
generate_utils == Overwrites("input", "zeros")
for_each_utils == Overwrites("data", "kernel_its")

-----------------------------------------------------------------------------
(* Algorithms that spoil their input: each iteration starts with a shuffle *)
(* in a host view, of whatever permutation the last F left.                *)
Shuffle(left) == HostBlock({"input"}, [input |-> left], [input |-> "shuffled"])

Reorders(result) ==
  Program({"input"},
    <<Raw(Nothing, [input |-> "iota"])>>,
    Shuffle({"iota", result}) \o <<Timed([input |-> {"shuffled"}], [input |-> result])>>,
    <<>>,
    <<Verify([input |-> {result}])>>)

sort_utils == Reorders("iota")
partial_sort_utils == Reorders("half_sorted")
partition_utils == Reorders("partitioned")

sort_utils_onedpl_gpu == Reorders("iota")
sort_utils_acpp_onedpl == Reorders("iota")
sort_utils_acpp_stdpar == Reorders("iota")
sort_utils_nvhpc_cuda == Reorders("iota")

partial_sort_utils_onedpl_gpu == Reorders("half_sorted")
partial_sort_utils_acpp_onedpl == Reorders("half_sorted")
partial_sort_utils_acpp_stdpar == Reorders("half_sorted")
partial_sort_utils_nvhpc_cuda == Reorders("half_sorted")

partition_utils_onedpl_gpu == Reorders("partitioned")
partition_utils_acpp_onedpl == Reorders("partitioned")
partition_utils_acpp_stdpar == Reorders("partitioned")
partition_utils_nvhpc_cuda == Reorders("partitioned")

-----------------------------------------------------------------------------
(* merge and inplace_merge want both halves of the input sorted.  The      *)
(* shared file shuffles and sorts them in one host view; the files of the  *)
(* GPU backends shuffle on the host and sort by two device calls.          *)
HostHalves(left) == HostBlock({"input"}, [input |-> left], [input |-> "halves_sorted"])

DeviceHalves(left) ==
  Shuffle(left)
    \o <<Kernel([input |-> {"shuffled"}], [input |-> "lower_sorted"]),
         Kernel([input |-> {"lower_sorted"}], [input |-> "halves_sorted"])>>

MergeAfter(prepare) ==
  Program({"input", "output"},
    <<Raw(Nothing, [input |-> "iota"]), Raw([input |-> {"iota"}], [output |-> "iota"])>>,
    prepare \o <<Timed([input |-> {"halves_sorted"}], [output |-> "iota"])>>,
    <<>>,
    <<Verify([input |-> {"halves_sorted"}, output |-> {"iota"}])>>)

InplaceMergeAfter(prepare) ==
  Program({"input"},
    <<Raw(Nothing, [input |-> "iota"])>>,
    prepare \o <<Timed([input |-> {"halves_sorted"}], [input |-> "iota"])>>,
    <<>>,
    <<Verify([input |-> {"iota"}])>>)

merge_utils == MergeAfter(HostHalves({"iota", "halves_sorted"}))

merge_utils_onedpl_gpu == MergeAfter(DeviceHalves({"iota", "halves_sorted"}))
merge_utils_acpp_onedpl == MergeAfter(DeviceHalves({"iota", "halves_sorted"}))
merge_utils_acpp_stdpar == MergeAfter(DeviceHalves({"iota", "halves_sorted"}))
merge_utils_nvhpc_cuda == MergeAfter(DeviceHalves({"iota", "halves_sorted"}))

inplace_merge_utils == InplaceMergeAfter(HostHalves({"iota"}))
inplace_merge_utils_onedpl_gpu == InplaceMergeAfter(DeviceHalves({"iota"}))
inplace_merge_utils_acpp_onedpl == InplaceMergeAfter(DeviceHalves({"iota"}))
inplace_merge_utils_acpp_stdpar == InplaceMergeAfter(DeviceHalves({"iota"}))
inplace_merge_utils_nvhpc_cuda == InplaceMergeAfter(DeviceHalves({"iota"}))

-----------------------------------------------------------------------------
(* Plant, search, reset: the pair or the mismatch of an iteration must be  *)
(* gone before the next one plants its own, and is planted once more after *)
(* the loop because the verification looks for it.                         *)
PlantPair == [input |-> {"iota"}, index |-> {"drawn"}]

adjacent_find_utils ==
  Program({"input"},
    <<Raw(Nothing, [input |-> "iota"])>>,
    <<Raw(Nothing, [index |-> "drawn", last_index |-> "drawn"])>>
      \o HostBlock({"input"}, PlantPair, [input |-> "pair"])
      \o <<Timed([input |-> {"pair"}], [last_offset |-> "of_pair"])>>
      \o HostBlock({"input"}, [input |-> {"pair"}, index |-> {"drawn"}], [input |-> "iota"]),
    <<Raw([input |-> {"iota"}, last_index |-> {"drawn"}, last_offset |-> {"of_pair"}],
          [input |-> "pair"])>>,
    <<Verify([input |-> {"pair"}, last_offset |-> {"of_pair"}])>>)

MismatchLoop ==
  <<Raw(Nothing, [idx |-> "drawn", last_idx |-> "drawn"])>>
    \o HostBlock({"data1", "data2"}, [data1 |-> {"iota"}, data2 |-> {"iota"}, idx |-> {"drawn"}],
                 [data2 |-> "mismatch"])
    \o <<Timed([data1 |-> {"iota"}, data2 |-> {"mismatch"}],
               [last_first_offset |-> "of_mismatch"])>>
    \o HostBlock({"data1", "data2"}, [data1 |-> {"iota"}, data2 |-> {"mismatch"}, idx |-> {"drawn"}],
                 [data2 |-> "iota"])

Mismatch(post) ==
  Program({"data1", "data2"},
    <<Raw(Nothing, [data1 |-> "iota"]), Raw([data1 |-> {"iota"}], [data2 |-> "iota"])>>,
    MismatchLoop, post,
    <<Verify([data1 |-> {"iota"}, data2 |-> {"mismatch"}, last_first_offset |-> {"of_mismatch"}])>>)

(* The undone mismatch is not put back before the verification.            *)
mismatch_utils_NotReplanted == Mismatch(<<>>)

mismatch_utils ==
  Mismatch(<<Raw([data1 |-> {"iota"}, data2 |-> {"iota"}, last_idx |-> {"drawn"}],
                 [data2 |-> "mismatch"])>>)

-----------------------------------------------------------------------------
(* The set operations write a prefix of output.  Every iteration fills it  *)
(* with NaN again, so the verification has to call F once more, on the     *)
(* vectors, after the bench_inputs are gone.                               *)
SetOperation(result, reset) ==
  LET F(op) == Does(op, [data1 |-> {"iota"}, data2 |-> {"sub"}, output |-> {"nans"}],
                    [output |-> result])
  IN Program({"data1", "data2", "output"},
       <<Raw(Nothing, [data1 |-> "iota", data2 |-> "sub", output |-> "nans"])>>,
       <<F("timed")>> \o reset,
       <<>>,
       <<Raw(Nothing, [output |-> "nans"]), F("kernel"),
         Verify([data1 |-> {"iota"}, data2 |-> {"sub"}, output |-> {result}])>>)

HostFill == HostBlock({"output"}, Nothing, [output |-> "nans"])
DeviceFill == <<Kernel(Nothing, [output |-> "nans"])>>

(* The output keeps what the last iteration wrote.                         *)
set_difference_utils_NoReset == SetOperation("difference", <<>>)

set_difference_utils == SetOperation("difference", HostFill)
set_difference_utils_onedpl_gpu == SetOperation("difference", DeviceFill)
set_difference_utils_acpp_onedpl == SetOperation("difference", DeviceFill)
set_difference_utils_acpp_stdpar == SetOperation("difference", DeviceFill)
set_difference_utils_nvhpc_cuda == SetOperation("difference", DeviceFill)

set_intersection_utils == SetOperation("intersection", HostFill)
set_intersection_utils_onedpl_gpu == SetOperation("intersection", DeviceFill)
set_intersection_utils_acpp_onedpl == SetOperation("intersection", DeviceFill)
set_intersection_utils_acpp_stdpar == SetOperation("intersection", DeviceFill)
set_intersection_utils_nvhpc_cuda == SetOperation("intersection", DeviceFill)
=============================================================================
