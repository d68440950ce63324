------------------------------- MODULE MC_Strip -------------------------------
(***************************************************************************)
(* Command lines of two or three object files, drawn from: the main        *)
(* program (exports main's slots, calls f), a library defining f that     *)
(* calls g, a library defining g, and an object stripped before (its names *)
(* are already numbers, as a second run over the same file sees them).    *)
(* Each position of a command line is its own file, except in the run     *)
(* that names one path twice.                                              *)
(***************************************************************************)
EXTENDS Strip

MainArg == "_main_arg_0_export"
MainRet == "_main_return_location_export"
FArg    == "_f_arg_0_export"
FRet    == "_f_return_location_export"
GArg    == "_g_arg_0_export"
GRet    == "_g_return_location_export"

MainObj     == Object(<<FArg, FRet>>, <<MainArg, MainRet>>)
LibF        == Object(<<GArg, GRet>>, <<FArg, FRet>>)
LibG        == Object(<< >>, <<GArg, GRet>>)
StrippedObj == Object(<<"0">>, <<"1", "2">>)

Objects == {MainObj, LibF, LibG, StrippedObj}

MCEntryNames == {MainArg, MainRet}

\* A command line of distinct paths, the k-th holding the k-th object.
Paths == <<"a.o", "b.o", "c.o">>
Run(os) == [files |-> [k \in DOMAIN os |-> Paths[k]],
            disk  |-> [p \in {Paths[k] : k \in DOMAIN os} |->
                         os[CHOOSE k \in DOMAIN os : Paths[k] = p]]]

MCInputs == {Run(<<x, y>>) : x, y \in Objects} \cup {Run(<<MainObj, LibF, LibG>>)}

\* A library that calls back into main through an extern declaration.
CallbackObj == Object(<<MainArg, MainRet>>, <<FArg, FRet>>)
CallbackInputs == {Run(<<MainObj, CallbackObj>>)}

\* The same path twice: g's library, then its caller, then g's again.
AliasInputs == {[files |-> <<"a.o", "b.o", "a.o">>,
                 disk  |-> [p \in {"a.o", "b.o"} |-> IF p = "a.o" THEN LibG ELSE LibF]]}
=============================================================================
