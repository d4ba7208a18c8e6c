------------------------------- MODULE Startup -------------------------------
(***************************************************************************)
(* The start of a recording: collect the debug information (Symbols), set  *)
(* the breakpoints from the statements collected and look the traps up     *)
(* (LineCache).  main() of the recorder stops when dbg_srcinfo() fails.    *)
(***************************************************************************)
EXTENDS Symbols, LineCache

cacheVars == <<table, image, code, base_address, instr_cache, unit,
               pc, address, left, right, index, left_addr, right_addr>>
vars == <<symVars, cacheVars>>

\* The rows of statement JOIN file that set_breakpoints() selects.
Rows == {[unit |-> db.file[s.file].unit, file |-> s.file, line |-> s.line,
          addr |-> s.addr, func |-> s.func, flag |-> s.flag] : s \in Range(db.statement)}

Init == SymInit /\ LineInit

\* main(): record() is called when dbg_srcinfo() has returned SUCCESS.
Start ==
  /\ phase = "ready" /\ phase' = "recording"
  /\ Load(Rows)
  /\ UNCHANGED <<walkVars, pos, stack, db>>

Next ==
  \/ dbg_srcinfo /\ UNCHANGED cacheVars
  \/ Start
  \/ LineStep /\ UNCHANGED symVars

Spec == Init /\ [][Next]_vars /\ WF_vars(Search /\ UNCHANGED symVars)
=============================================================================
