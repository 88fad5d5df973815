--------------------------- MODULE BrowserSession ---------------------------
(***************************************************************************)
(* deye.browser.BrowserAdapter, as skills.browser_research uses it: a      *)
(* `with` block that acquires Playwright, a browser and a context, methods *)
(* that open a page each, and the release of all of it.  Each call into    *)
(* Playwright may raise, and the block itself may be left by an exception. *)
(***************************************************************************)
EXTENDS Naturals, Sequences

CONSTANTS MaxMethodCalls      \* bound: method calls in a session

ASSUME BrowserAssumption == MaxMethodCalls \in Nat

VARIABLES
    available,      \* _available: what _probe() found at import
    grants,         \* consent: the write actions granted in this session
    open,           \* the Playwright objects that really are open
    held,           \* the attributes _pw, _browser, _context that are not None
    session,        \* where the session is, and the call it is in
    stuck           \* history: objects whose own close() raised

browserVars == <<available, grants, open, held, session, stuck>>

Acquired == <<"_pw", "_browser", "_context">>
Writes == {"click", "fill_form"}
Methods == {"render_html", "screenshot", "a11y"} \cup Writes
PageStages == {"goto", "act", "finally", "raising"}

BrowserInit ==
    /\ available \in BOOLEAN
    /\ grants \in SUBSET Writes
    /\ open = {} /\ held = {} /\ stuck = {}
    /\ session = [at |-> "enter", next |-> 1, calls |-> 0, entered |-> FALSE]

In(l) == session.at = l
To(l) == session' = [session EXCEPT !.at = l]

(* __enter__: without Playwright it does nothing.                          *)
EnterUnavailable ==
    /\ In("enter") /\ ~ available
    /\ session' = [session EXCEPT !.at = "ready", !.entered = TRUE]
    /\ UNCHANGED <<available, grants, open, held, stuck>>

(* start(), launch(), new_context(): one after the other ...               *)
Acquire ==
    /\ In("enter") /\ available
    /\ LET h == Acquired[session.next] IN open' = open \cup {h} /\ held' = held \cup {h}
    /\ session' = IF session.next < Len(Acquired)
                  THEN [session EXCEPT !.next = @ + 1]
                  ELSE [session EXCEPT !.at = "ready", !.entered = TRUE]
    /\ UNCHANGED <<available, grants, stuck>>

(* ... and when one raises, close() releases those before it.              *)
AcquireFails ==
    /\ In("enter") /\ available
    /\ session' = [session EXCEPT !.at = "close", !.next = Len(Acquired)]
    /\ UNCHANGED <<available, grants, open, held, stuck>>

(* Faulty variant: one try block around the three.                         *)
CloseNextOrStop ==
    /\ In("close") /\ session.next > 0
    /\ LET h == Acquired[session.next] IN
        \/ /\ open' = open \ {h} /\ UNCHANGED stuck
           /\ session' = [session EXCEPT !.next = @ - 1]
        \/ /\ h \in held /\ stuck' = stuck \cup {h} /\ UNCHANGED open
           /\ session' = [session EXCEPT !.next = 0]
    /\ UNCHANGED <<available, grants, held>>

(* close(): in reverse order, each in a try block of its own.              *)
CloseNext ==
    /\ In("close") /\ session.next > 0
    /\ LET h == Acquired[session.next] IN
        \/ h \in held /\ open' = open \ {h} /\ UNCHANGED stuck
        \/ h \in held /\ stuck' = stuck \cup {h} /\ UNCHANGED open
        \/ h \notin held /\ UNCHANGED <<open, stuck>>
    /\ session' = [session EXCEPT !.next = @ - 1]
    /\ UNCHANGED <<available, grants, held>>

(* The attributes become None; __enter__ goes on into the block, __exit__  *)
(* is done.                                                                *)
Closed ==
    /\ In("close") /\ session.next = 0
    /\ held' = {}
    /\ session' = [session EXCEPT !.at = IF session.entered THEN "over" ELSE "ready",
                                  !.entered = TRUE]
    /\ UNCHANGED <<available, grants, open, stuck>>

(* A method: the consent gate of the write methods, the check for a        *)
(* context, a page.  Without consent or context the result is ok=False.    *)
Method(m) ==
    /\ In("ready") /\ session.calls < MaxMethodCalls
    /\ LET refused == m \in Writes /\ m \notin grants
           opens == ~ refused /\ available /\ "_context" \in held
       IN  /\ open' = IF opens THEN open \cup {"page"} ELSE open
           /\ session' = [session EXCEPT !.calls = @ + 1, !.at = IF opens THEN "goto" ELSE "ready"]
    /\ UNCHANGED <<available, grants, held, stuck>>

(* new_page() raises: the exception leaves the block.                      *)
NewPageFails ==
    /\ In("ready") /\ "_context" \in held /\ session.calls < MaxMethodCalls
    /\ session' = [session EXCEPT !.calls = @ + 1, !.at = "close", !.next = Len(Acquired)]
    /\ UNCHANGED <<available, grants, open, held, stuck>>

(* goto(), then what the method does on the page; each may raise.          *)
PageStep ==
    /\ In("goto") \/ In("act")
    /\ To(IF In("goto") THEN "act" ELSE "finally")
    /\ UNCHANGED <<available, grants, open, held, stuck>>
PageStepRaises ==
    /\ In("goto") \/ In("act")
    /\ To("raising")
    /\ UNCHANGED <<available, grants, open, held, stuck>>

(* finally: page.close(), which may itself raise.                          *)
PageClosed ==
    /\ In("finally") \/ In("raising")
    /\ \/ /\ open' = open \ {"page"} /\ UNCHANGED stuck
          /\ session' = IF In("finally") THEN [session EXCEPT !.at = "ready"]
                        ELSE [session EXCEPT !.at = "close", !.next = Len(Acquired)]
       \/ /\ stuck' = stuck \cup {"page"} /\ UNCHANGED open
          /\ session' = [session EXCEPT !.at = "close", !.next = Len(Acquired)]
    /\ UNCHANGED <<available, grants, held>>

(* The end of the block, or an exception in it: __exit__.                  *)
Leave ==
    /\ In("ready")
    /\ session' = [session EXCEPT !.at = "close", !.next = Len(Acquired)]
    /\ UNCHANGED <<available, grants, open, held, stuck>>

BrowserNext ==
    \/ EnterUnavailable \/ Acquire \/ AcquireFails
    \/ \E m \in Methods : Method(m)
    \/ NewPageFails \/ PageStep \/ PageStepRaises \/ PageClosed
    \/ Leave \/ CloseNext \/ Closed

BrowserSpec == BrowserInit /\ [][BrowserNext]_browserVars

----------------------------------------------------------------------------
(* The objects and the place a session is at.                              *)
BrowserTypeOK ==
    /\ available \in BOOLEAN /\ grants \subseteq Writes
    /\ open \cup stuck \subseteq {"_pw", "_browser", "_context", "page"}
    /\ held \subseteq {"_pw", "_browser", "_context"}
    /\ session \in [at : {"enter", "ready", "close", "over"} \cup PageStages,
                    next : 0..Len(Acquired), calls : 0..MaxMethodCalls, entered : BOOLEAN]

(* A session that is over, however it failed to start or was left, has     *)
(* closed every page, context, browser and driver, except those whose own  *)
(* close() raised, and keeps no reference; in between, what is open is     *)
(* referenced, so that close() can reach it.                               *)
HandlesReleased ==
    /\ open \ ({"page"} \cup stuck) \subseteq held
    /\ In("over") => held = {} /\ open \subseteq stuck
=============================================================================
