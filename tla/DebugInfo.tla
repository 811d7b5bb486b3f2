------------------------------ MODULE DebugInfo ------------------------------
(***************************************************************************)
(* debuginfo_eip of kern/kdebug.c: the source file, the function and the   *)
(* number of arguments that the symbol table has for an address.  It calls *)
(* stab_binsearch twice; its steps are those of StabSearch, started here   *)
(* with the arguments of the call.                                         *)
(*                                                                         *)
(* A string is named by the stab that refers to it.  The search for the    *)
(* line number is missing in the code ("Your code here"), and with it any  *)
(* use of rline and of the address made relative to the function.          *)
(***************************************************************************)
EXTENDS StabSearch

CONSTANTS
  Tables,      \* symbol tables to be searched
  ULIM,        \* the first address of the kernel
  StrSizes     \* numbers of strings in the string table

\* The stab that index 0 stands for is none of a file: lfile = 0 is "not found".
\* Files, which are not at address 0, and functions are "arranged in increasing
\* order by instruction address", whatever lies between them.
Linked(t) ==
  LET Ordered(ty) == \A i, j \in DOMAIN t :
        i < j /\ t[i].n_type = ty /\ t[j].n_type = ty => t[i].n_value <= t[j].n_value
  IN  /\ t[0].n_type # "SO"
      /\ Ordered("SO") /\ Ordered("FUN")
      /\ \A i \in DOMAIN t : t[i].n_type = "SO" => t[i].n_value # 0

ASSUME InfoAssumption ==
  /\ Tables \subseteq [0 .. N - 1 -> Stab]
  /\ \A t \in Tables : Linked(t)
  /\ ULIM \in Addr
  /\ StrSizes \subseteq Nat
  /\ N > 0

UNKNOWN == -1  \* "<unknown>"

VARIABLES
  eip,         \* the argument of debuginfo_eip
  strs,        \* strings in the string table; 0: it fails the validity check
  info,        \* *info
  lfile, rfile, lfun, rfun, lline,
  at           \* where debuginfo_eip is, or how it ended

bounds   == <<lfile, rfile, lfun, rfun, lline>>
infoVars == <<vars, eip, strs, info, bounds, at>>

TypeOf(i) == stabs[i].n_type

\* The string of stab i, if it lies in the string table.
NameOr(i, default) == IF i < strs THEN i ELSE default

-----------------------------------------------------------------------------
\* stab_binsearch is called for the stabs of type t in i .. j.
Call(t, i, j) ==
  /\ type' = t
  /\ lo' = i /\ hi' = j /\ left' = i /\ right' = j
  /\ addr0' = eip /\ addr' = eip
  /\ l' = i /\ r' = j /\ m' = 0
  /\ any_matches' = FALSE
  /\ pc' = "loop"
  /\ UNCHANGED stabs

\* stab_binsearch, called from place p, has returned.
Returned(p) == at = p /\ pc = "done"

\* No address of user programs; no table without strings.
Enter ==
  /\ at = "entry"
  /\ info' = [eip_file |-> UNKNOWN, eip_fn_name |-> UNKNOWN,
              eip_fn_addr |-> eip, eip_fn_narg |-> 0]
  /\ IF eip < ULIM THEN at' = "panic" /\ UNCHANGED vars
     ELSE IF strs = 0 THEN at' = "fail" /\ UNCHANGED vars
     ELSE at' = "file" /\ Call("SO", 0, N - 1)
  /\ UNCHANGED <<eip, strs, bounds>>

\* Mutant of FileFound: the function is looked for behind the file as well.
FileFoundOpen ==
  /\ Returned("file")
  /\ lfile' = left /\ rfile' = right
  /\ IF left = 0 THEN at' = "fail" /\ UNCHANGED vars
     ELSE at' = "fun" /\ Call("FUN", left, N - 1)
  /\ UNCHANGED <<eip, strs, info, lfun, rfun, lline>>

\* The source file, and in it the function.
FileFound ==
  /\ Returned("file")
  /\ lfile' = left /\ rfile' = right
  /\ IF left = 0 THEN at' = "fail" /\ UNCHANGED vars
     ELSE at' = "fun" /\ Call("FUN", left, right)
  /\ UNCHANGED <<eip, strs, info, lfun, rfun, lline>>

FunFound ==
  /\ Returned("fun")
  /\ lfun' = left /\ rfun' = right
  /\ IF left <= right
     THEN /\ info' = [info EXCEPT !.eip_fn_name = NameOr(left, @),
                                  !.eip_fn_addr = stabs[left].n_value]
          /\ lline' = left
     ELSE /\ info' = [info EXCEPT !.eip_fn_addr = eip]
          /\ lline' = lfile
  /\ at' = "line"
  /\ UNCHANGED <<vars, eip, strs, lfile, rfile>>

\* The stab that names the source in force at lline.
NamesSource == TypeOf(lline) = "SOL" \/ (TypeOf(lline) = "SO" /\ stabs[lline].n_value # 0)

LineBack ==
  /\ at = "line"
  /\ lline >= lfile /\ ~NamesSource
  /\ lline' = lline - 1
  /\ UNCHANGED <<vars, eip, strs, info, lfile, rfile, lfun, rfun, at>>

SourceFound ==
  /\ at = "line"
  /\ lline >= lfile => NamesSource
  /\ info' = [info EXCEPT !.eip_file = IF lline >= lfile THEN NameOr(lline, @) ELSE @]
  /\ at' = IF lfun < rfun THEN "args" ELSE "ok"
  /\ lline' = IF lfun < rfun THEN lfun + 1 ELSE lline
  /\ UNCHANGED <<vars, eip, strs, lfile, rfile, lfun, rfun>>

IsArgument == lline < rfun /\ TypeOf(lline) = "PSYM"

CountArg ==
  /\ at = "args"
  /\ IsArgument
  /\ info' = [info EXCEPT !.eip_fn_narg = @ + 1]
  /\ lline' = lline + 1
  /\ UNCHANGED <<vars, eip, strs, lfile, rfile, lfun, rfun, at>>

ArgsDone ==
  /\ at = "args"
  /\ ~IsArgument
  /\ at' = "ok"
  /\ UNCHANGED <<vars, eip, strs, info, bounds>>

-----------------------------------------------------------------------------
\* Before the first call the search is one of an empty region.
InfoInit ==
  /\ stabs \in Tables
  /\ eip \in Addr
  /\ strs \in StrSizes
  /\ type = "SO" /\ lo = 0 /\ hi = -1 /\ addr0 = eip
  /\ left = 0 /\ right = -1
  /\ l = 0 /\ r = -1 /\ m = 0 /\ addr = eip /\ any_matches = FALSE
  /\ pc = "done"
  /\ info = [eip_file |-> UNKNOWN, eip_fn_name |-> UNKNOWN,
             eip_fn_addr |-> 0, eip_fn_narg |-> 0]
  /\ lfile = 0 /\ rfile = 0 /\ lfun = 0 /\ rfun = 0 /\ lline = 0
  /\ at = "entry"

Search == Next /\ UNCHANGED <<eip, strs, info, bounds, at>>

InfoNext == Enter \/ Search \/ FileFound \/ FunFound \/ LineBack \/ SourceFound
            \/ CountArg \/ ArgsDone

InfoSpec == InfoInit /\ [][InfoNext]_infoVars

\* The call is not interrupted.
FairInfoSpec == InfoSpec /\ WF_infoVars(InfoNext)

-----------------------------------------------------------------------------
(* Properties.  Those of StabSearch hold of both searches.                 *)

\* The last stab of type t among the stabs in s that starts at or before eip,
\* or none.
LastOf(t, s) ==
  LET c == {i \in s : TypeOf(i) = t /\ stabs[i].n_value <= eip}
  IN  {i \in c : \A j \in c : j <= i}

\* The stabs of the file whose first stab is f.
FileOf(f) ==
  {i \in f .. N - 1 : \A j \in f + 1 .. i : TypeOf(j) # "SO"}

\* What the compiler sees to: parameters are followed by something else than
\* the end of their function.
Closed ==
  \A i \in 1 .. N - 1 : TypeOf(i) = "PSYM" =>
    i + 1 < N /\ TypeOf(i + 1) \notin {"SO", "FUN"}

\* No file or function starts right behind the address (see FoundContainsAddr).
Apart ==
  \A i \in 0 .. N - 1 : TypeOf(i) \in {"SO", "FUN"} => stabs[i].n_value # eip + 1

\* The source in force at stab k of file f: the last one named before it.
SourceAt(f, k) ==
  CHOOSE i \in f .. k : /\ i = f \/ TypeOf(i) = "SOL"
                        /\ \A j \in i + 1 .. k : TypeOf(j) # "SOL"

\* debuginfo_eip fails exactly if no file contains the address.  Otherwise it
\* reports the function of that file which contains it, with all its arguments
\* and the source in force there, or, in a file without functions, the file
\* alone; and never a name outside the string table.  (In a file whose
\* functions all start behind the address, the stab of the file passes for one
\* of a function.)
InfoIsRight ==
  at \in {"fail", "ok"} /\ strs > 0 /\ eip # MaxAddr /\ Apart =>
    /\ at = "fail" <=> LastOf("SO", 0 .. N - 1) = {}
    /\ at = "ok" =>
         \A f \in LastOf("SO", 0 .. N - 1) :
           /\ (\A j \in FileOf(f) : TypeOf(j) # "FUN") =>
                info = [eip_file |-> NameOr(f, UNKNOWN), eip_fn_name |-> UNKNOWN,
                        eip_fn_addr |-> eip, eip_fn_narg |-> 0]
           /\ \A k \in LastOf("FUN", FileOf(f)) :
                LET n == info.eip_fn_narg
                IN  /\ info.eip_fn_name = NameOr(k, UNKNOWN)
                    /\ info.eip_fn_addr = stabs[k].n_value
                    /\ info.eip_file = NameOr(SourceAt(f, k), UNKNOWN)
                    /\ \A j \in k + 1 .. k + n : TypeOf(j) = "PSYM"
                    /\ Closed /\ k + n + 1 < N => TypeOf(k + n + 1) # "PSYM"

\* debuginfo_eip returns, or panics, for every address and every table.
Returns == <>(at \in {"ok", "fail", "panic"})
===============================================================================
