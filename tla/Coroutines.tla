----------------------------- MODULE Coroutines -----------------------------
(***************************************************************************)
(* CCoroutine (coroutine.hh) over swapcontext: the flows of control of one *)
(* thread, the main one and one for each coroutine, of which coRun runs.   *)
(* coSaved is the flow that each context, the cur_ and the prev_ of every  *)
(* coroutine, would continue: None once that flow has gone on since it was *)
(* saved.  coLink is cur_.uc_link; coFlags the coroutines whose flag says  *)
(* running, coEnded those whose function has returned or that are no more. *)
(*                                                                         *)
(* The system keeps the link of makecontext for the end of a function: it  *)
(* goes to prev_ whatever uc_link is by then.                              *)
(*                                                                         *)
(* Callers enter a coroutine only where it is suspended, resume none whose *)
(* prev_ somebody waits in, return from none that nobody resumed, and      *)
(* resume from none that was yielded to: nothing in the code looks.        *)
(* Arguments are left out.                                                 *)
(***************************************************************************)
EXTENDS FiniteSets

CONSTANTS
    Coro,   \* coroutines
    Main    \* the flow of control that makes them

VARIABLES coRun, coSaved, coLink, coFlags, coEnded

coVars == <<coRun, coSaved, coLink, coFlags, coEnded>>

None == "none"
Cur(c) == <<"cur", c>>
Prev(c) == <<"prev", c>>
Contexts == {"cur", "prev"} \X Coro

Init ==
    /\ coRun = Main
    /\ coSaved = [k \in Contexts |-> IF k[1] = "cur" THEN k[2] ELSE None]
    /\ coLink = [c \in Coro |-> Prev(c)]
    /\ coFlags = {} /\ coEnded = {}

\* swapcontext(from, to)
Swap(from, to) ==
    /\ coSaved[to] # None
    /\ coSaved' = [coSaved EXCEPT ![to] = None, ![from] = coRun]
    /\ coRun' = coSaved[to]
    /\ coFlags' = coFlags \cup ({coSaved[to]} \ {Main})

\* A coroutine called: operator (), resume.
Resume(c) ==
    /\ coSaved[Cur(c)] = c /\ coSaved[Prev(c)] = None
    /\ coRun \in Coro => coLink[coRun] = Prev(coRun)
    /\ coLink' = [coLink EXCEPT ![c] = Prev(c)]
    /\ Swap(Prev(c), Cur(c))
    /\ UNCHANGED coEnded

\* yield()
Yield ==
    /\ coRun \in Coro
    /\ Swap(Cur(coRun), coLink[coRun])
    /\ UNCHANGED <<coLink, coEnded>>

\* yield(coro): the other's next yield() comes back here.
YieldTo(c) ==
    /\ coRun \in Coro /\ coSaved[Cur(c)] = c
    /\ coLink' = [coLink EXCEPT ![c] = Cur(coRun)]
    /\ Swap(Cur(coRun), Cur(c))
    /\ UNCHANGED coEnded

\* run, when the function has returned.
Return ==
    /\ coRun \in Coro
    /\ coSaved[Prev(coRun)] # None
    /\ coRun' = coSaved[Prev(coRun)]
    /\ coSaved' = [coSaved EXCEPT ![Prev(coRun)] = None]
    /\ coFlags' = coFlags \ {coRun}
    /\ coEnded' = coEnded \cup {coRun}
    /\ UNCHANGED coLink

\* ~CCoroutineBase of one that does not run: one that was never called.
Destroy(c) ==
    /\ c \notin coFlags \cup coEnded /\ c # coRun
    /\ coSaved' = [coSaved EXCEPT ![Cur(c)] = None]
    /\ coEnded' = coEnded \cup {c}
    /\ UNCHANGED <<coRun, coLink, coFlags>>

Next == Yield \/ Return \/ \E c \in Coro : Resume(c) \/ YieldTo(c) \/ Destroy(c)

Spec == Init /\ [][Next]_coVars

----------------------------------------------------------------------------
TypeOK ==
    /\ coRun \in Coro \cup {Main} /\ coSaved \in [Contexts -> Coro \cup {Main, None}]
    /\ coLink \in [Coro -> Contexts] /\ coFlags \subseteq Coro /\ coEnded \subseteq Coro

\* Whatever coroutines call and yield to each other, yield() of the one that runs
\* goes to a flow that is suspended just there, and none is lost: each that has not
\* ended waits in exactly one context, and the flag says which have begun
\* (impl/coroutine_impl.hh:42-67).
YieldReturns ==
    /\ coRun \in Coro => coSaved[coLink[coRun]] # None
    /\ \A f \in (Coro \cup {Main}) \ coEnded :
          Cardinality({k \in Contexts : coSaved[k] = f}) = IF f = coRun THEN 0 ELSE 1
    /\ coFlags \cap coEnded = {}
=============================================================================
