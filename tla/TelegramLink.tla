----------------------------- MODULE TelegramLink -----------------------------
(***************************************************************************)
(* front/src/components/TelegramLinking.tsx: look up whether the visitor's *)
(* Telegram account is linked; ask for a deep link, poll every three       *)
(* seconds until the bot has linked the account, give up after ten         *)
(* minutes; unlink.  One ref holds the interval, another the timer; a link *)
(* that succeeds clears its interval and leaves its timer running.         *)
(*                                                                         *)
(* Last comes all that a visitor does for rewards: the linking beside the  *)
(* task cards (TaskCards), with which it shares no state.                  *)
(***************************************************************************)
EXTENDS TaskCards, Sequences

CONSTANTS Guests, NoGuest, MaxGuests, MaxLinks, MaxRequests

ASSUME LinkAssumption == MaxGuests \in Nat /\ MaxLinks \in Nat /\ MaxRequests \in Nat

VARIABLES
    guest, changes,             \* useAccount().address, and its changes so far
    linked,                     \* the wallet whose account is shown as linked
    linkLoading, linking,       \* loading, linking
    polls, pollRef, timeouts,   \* live intervals, pollRef.current, timers set
    links, requests, inFlight,  \* links begun, requests so far and under way
    bound,                      \* wallets whose account the bot has linked
    cut, older                  \* see OnePollAtATime and LinkedMeansLinked

linkPageVars == <<guest, changes, linked, linkLoading, linking, polls, pollRef, timeouts,
                  links, requests, inFlight, bound, cut, older>>
timerVars == <<polls, pollRef, timeouts>>
guestVars == <<guest, changes>>

LinkPageTypeOK ==
    /\ guest \in Guests \cup {NoGuest} /\ changes \in 0..MaxGuests
    /\ linked \in Guests \cup {NoGuest} /\ linkLoading \in BOOLEAN /\ linking \in BOOLEAN
    /\ polls \subseteq [no : 1..MaxLinks, by : Guests] /\ pollRef \in 0..MaxLinks
    /\ timeouts \in Seq(1..MaxLinks) /\ links \in 0..MaxLinks /\ requests \in 0..MaxRequests
    /\ inFlight \subseteq [no : 1..MaxRequests, kind : {"check", "generate", "poll", "unlink"}, by : Guests,
                           link : 0..MaxLinks, at : {"out", "back"}, ok : BOOLEAN, yes : BOOLEAN]
    /\ bound \subseteq Guests /\ cut \in BOOLEAN /\ older \in BOOLEAN

LinkPageInit ==
    /\ guest = NoGuest /\ changes = 0 /\ linked = NoGuest /\ linkLoading = FALSE /\ linking = FALSE
    /\ polls = {} /\ pollRef = 0 /\ timeouts = << >> /\ links = 0 /\ requests = 0 /\ inFlight = {}
    /\ bound \in SUBSET Guests /\ cut = FALSE /\ older = FALSE

Request(kind, v, link) ==
    /\ requests < MaxRequests /\ requests' = requests + 1
    /\ inFlight' = inFlight \cup {[no |-> requests + 1, kind |-> kind, by |-> v, link |-> link,
                                   at |-> "out", ok |-> FALSE, yes |-> FALSE]}
Answered(c) == c \in inFlight /\ c.at = "back" /\ inFlight' = inFlight \ {c}

-----------------------------------------------------------------------------
(* The effect on [checkLinked], which changes with the address. *)
ChangeGuest(v) ==
    /\ v # guest /\ changes < MaxGuests /\ changes' = changes + 1 /\ guest' = v
    /\ IF v = NoGuest THEN UNCHANGED <<linkLoading, requests, inFlight>>
       ELSE linkLoading' = TRUE /\ Request("check", v, 0)
    /\ UNCHANGED <<linked, linking, timerVars, links, bound, cut, older>>

handleLink ==
    /\ guest # NoGuest /\ linked = NoGuest /\ ~linkLoading /\ ~linking
    /\ links < MaxLinks /\ links' = links + 1 /\ linking' = TRUE
    /\ Request("generate", guest, links + 1)
    /\ UNCHANGED <<guestVars, linked, linkLoading, timerVars, bound, cut, older>>

handleUnlink ==
    /\ guest # NoGuest /\ linked # NoGuest /\ ~linkLoading
    /\ linkLoading' = TRUE /\ Request("unlink", guest, 0)
    /\ UNCHANGED <<guestVars, linked, linking, timerVars, links, bound, cut, older>>

(* An interval fires whatever became of its last request. *)
PollTick(p) ==
    /\ p \in polls /\ Request("poll", p.by, p.no)
    /\ UNCHANGED <<guestVars, linked, linkLoading, linking, timerVars, links, bound, cut, older>>

(* The visitor presses Start in the bot on a link that was made (DeepLink). *)
BotLinks(v) ==
    /\ v \notin bound /\ \E p \in polls : p.by = v
    /\ bound' = bound \cup {v}
    /\ UNCHANGED <<guestVars, linked, linkLoading, linking, timerVars, links, requests, inFlight, cut, older>>

(* The backend answers what holds now, or unlinks; or the request, or only *)
(* its answer, is lost.                                                    *)
ServeLink(c) ==
    /\ c \in inFlight /\ c.at = "out"
    /\ \E ok \in BOOLEAN :
         /\ inFlight' = (inFlight \ {c}) \cup {[c EXCEPT !.at = "back", !.ok = ok, !.yes = c.by \in bound]}
         /\ \/ bound' = IF c.kind = "unlink" THEN bound \ {c.by} ELSE bound
            \/ ~ok /\ bound' = bound
    /\ UNCHANGED <<guestVars, linked, linkLoading, linking, timerVars, links, requests, cut, older>>

-----------------------------------------------------------------------------
(* History: an answer that says linked no longer holds when it comes, or   *)
(* that of an unlinking was lost.                                          *)
Heard(c) == older' = (older \/ (c.ok /\ c.yes /\ c.by \notin bound))
Owner(c) == IF c.yes THEN c.by ELSE NoGuest

LookupBack(c) ==
    /\ Answered(c) /\ c.kind = "check" /\ linkLoading' = FALSE /\ Heard(c)
    /\ linked' = IF c.ok THEN Owner(c) ELSE linked
    /\ UNCHANGED <<guestVars, linking, timerVars, links, requests, bound, cut>>

(* Mutant: the timer is not set. *)
GenerateBackNoTimer(c) ==
    /\ Answered(c) /\ c.kind = "generate"
    /\ IF c.ok THEN /\ polls' = polls \cup {[no |-> c.link, by |-> c.by]} /\ pollRef' = c.link
                    /\ UNCHANGED <<timeouts, linking>>
       ELSE linking' = FALSE /\ UNCHANGED timerVars
    /\ UNCHANGED <<guestVars, linked, linkLoading, links, requests, bound, cut, older>>

(* The rest of handleLink: the interval and the timer. *)
GenerateBack(c) ==
    /\ Answered(c) /\ c.kind = "generate"
    /\ IF c.ok THEN /\ polls' = polls \cup {[no |-> c.link, by |-> c.by]} /\ pollRef' = c.link
                    /\ timeouts' = Append(timeouts, c.link) /\ UNCHANGED linking
       ELSE linking' = FALSE /\ UNCHANGED timerVars
    /\ UNCHANGED <<guestVars, linked, linkLoading, links, requests, bound, cut, older>>

(* Clears the interval the ref holds now, whoever set it. *)
StopPolling(link) ==
    /\ polls' = {p \in polls : p.no # pollRef} /\ pollRef' = 0 /\ linking' = FALSE
    /\ cut' = (cut \/ (linking /\ link # links))

PollBack(c) ==
    /\ Answered(c) /\ c.kind = "poll" /\ Heard(c)
    /\ IF c.ok /\ c.yes THEN linked' = c.by /\ StopPolling(c.link)
       ELSE UNCHANGED <<linked, polls, pollRef, linking, cut>>
    /\ UNCHANGED <<guestVars, linkLoading, timeouts, links, requests, bound>>

(* Ten minutes after a link was made; timers fire in order. *)
Timeout ==
    /\ timeouts # << >> /\ timeouts' = Tail(timeouts) /\ StopPolling(Head(timeouts))
    /\ UNCHANGED <<guestVars, linked, linkLoading, links, requests, inFlight, bound, older>>

UnlinkBack(c) ==
    /\ Answered(c) /\ c.kind = "unlink" /\ linkLoading' = FALSE
    /\ linked' = IF c.ok THEN NoGuest ELSE linked
    /\ older' = (older \/ (~c.ok /\ c.by \notin bound))
    /\ UNCHANGED <<guestVars, linking, timerVars, links, requests, bound, cut>>

LinkPageNext ==
    \/ \E v \in Guests \cup {NoGuest} : ChangeGuest(v)
    \/ handleLink \/ handleUnlink
    \/ \E p \in polls : PollTick(p)
    \/ \E v \in Guests : BotLinks(v)
    \/ \E c \in inFlight : ServeLink(c) \/ LookupBack(c) \/ GenerateBack(c) \/ PollBack(c) \/ UnlinkBack(c)
    \/ Timeout

LinkPageSpec == LinkPageInit /\ [][LinkPageNext]_linkPageVars

-----------------------------------------------------------------------------
(* One interval at a time, and it is the one pollRef holds, so that the    *)
(* timer or the unmount can clear it; unless the timer or a late poll of   *)
(* an earlier link has ended the wait for a later one (TelegramLinking's   *)
(* timers are never cleared by a success).                                 *)
OnePollAtATime == ~cut => \A p \in polls : p.no = pollRef

(* "Waiting for you" always ends: a link being made, or an interval in     *)
(* pollRef whose timer is still to come.                                   *)
WaitingHasAnEnd ==
    linking => \/ \E c \in inFlight : c.kind = "generate"
               \/ /\ \E p \in polls : p.no = pollRef
                  /\ \E i \in DOMAIN timeouts : timeouts[i] = pollRef

(* The page calls an account linked only if it is, unless an unlinking is  *)
(* under way or its answer was lost, or an answer arrived that an          *)
(* unlinking had overtaken.                                                *)
LinkedMeansLinked ==
    linked # NoGuest /\ ~older /\ (\A c \in inFlight : c.kind # "unlink")
        => linked \in bound

-----------------------------------------------------------------------------
(* Cards and linking take their steps in any order. *)
VisitorInit == CardInit /\ LinkPageInit

VisitorNext ==
    \/ CardNext /\ UNCHANGED linkPageVars
    \/ LinkPageNext /\ UNCHANGED cardVars

VisitorSpec == VisitorInit /\ [][VisitorNext]_<<cardVars, linkPageVars>>

(* A visitor's cards and the linking of an account agree with what the     *)
(* backend has, and every wait ends (TaskCards, TelegramLink).             *)
VisitorPagesInv ==
    /\ CardTypeOK /\ DoubleSubmitNeedsAnother /\ AcceptedIsShown
    /\ LinkPageTypeOK /\ OnePollAtATime /\ WaitingHasAnEnd /\ LinkedMeansLinked
=============================================================================
