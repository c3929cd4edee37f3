------------------------------ MODULE AdminPages ------------------------------
(***************************************************************************)
(* The three admin pages (front/src/pages/admin: tasks, verification-tasks *)
(* and review) against the routes they call: the role check that opens the *)
(* page to a wallet, the list and its row actions, and the form.  Handlers *)
(* are async: each signs a message first, and between a click and its      *)
(* answer the wallet may be switched or other buttons clicked.  What a row *)
(* says is abstracted to the version of the list it was read from.         *)
(***************************************************************************)
EXTENDS ApiGate

CONSTANTS Rows, NoRow, MaxCalls, MaxSwitches

ASSUME AdminAssumption == NoRow \notin Rows /\ MaxCalls \in Nat /\ MaxSwitches \in Nat

VARIABLES
    adminPage,
    account,                    \* useAccount().address
    open, checkingRole,         \* isAdmin, checkingRole
    checks, answeredFor,        \* role checks under way; the wallet of the last answer
    shown,                      \* tasks or queue
    loading, failed,            \* loading, error # null
    showForm, editing, form,    \* editingTask; the row whose data formData has
    calls, made,                \* other requests under way, and so far
    stored, lastOwn,            \* the rows in the database; version of this page's last change
    newest,                     \* history: the newest version that was ever shown
    switches

adminVars == <<adminPage, account, open, checkingRole, checks, answeredFor, shown, loading, failed,
               showForm, editing, form, calls, made, stored, lastOwn, newest, switches>>
gateOfPage == <<account, open, checkingRole, checks, answeredFor, switches>>
formVars == <<showForm, editing, form>>
listVars == <<shown, loading, failed, newest, calls, made>>
storeVars == <<stored, lastOwn>>

Kinds == {"fetch", "save", "toggle", "delete", "review"}
List == [version : Nat, rows : SUBSET Rows]
NoList == [version |-> 0, rows |-> {}]
Call == [no : 1..MaxCalls, kind : Kinds, by : Addresses, row : Rows \cup {NoRow},
         of : Rows \cup {NoRow}, at : {"out", "back"}, ok : BOOLEAN, list : List]

AdminTypeOK ==
    /\ adminPage \in {"tasks", "verification", "review"} /\ account \in Somebody
    /\ open \in BOOLEAN /\ checkingRole \in BOOLEAN /\ answeredFor \in Somebody
    /\ checks \subseteq [no : 1..MaxSwitches, by : Addresses, at : {"out", "back"}, opens : BOOLEAN]
    /\ shown \in List /\ stored \in List /\ lastOwn \in Nat /\ newest \in Nat
    /\ loading \in BOOLEAN /\ failed \in BOOLEAN /\ showForm \in BOOLEAN
    /\ editing \in Rows \cup {NoRow} /\ form \in Rows \cup {NoRow}
    /\ calls \subseteq Call /\ made \in 0..MaxCalls /\ switches \in 0..MaxSwitches

AdminInit ==
    /\ adminPage \in {"tasks", "verification", "review"} /\ account = NoAddress
    /\ open = FALSE /\ checkingRole = FALSE /\ checks = {} /\ answeredFor = NoAddress
    /\ shown = NoList /\ loading = FALSE /\ failed = FALSE
    /\ showForm = FALSE /\ editing = NoRow /\ form = NoRow /\ calls = {} /\ made = 0
    /\ stored \in [version : {0}, rows : {{r} : r \in Rows}] /\ lastOwn = 0
    /\ newest = 0 /\ switches = 0

-----------------------------------------------------------------------------

(* What each page takes from the answer of /auth/check-role. *)
Opens(w) == IF adminPage = "verification" THEN CheckRole(w).isAdmin ELSE CheckRole(w).isAuthorized

(* The role the page's routes ask for. *)
Serves(w) == IF adminPage = "verification" THEN requireAdmin(w) ELSE requireAdminOrGov(w)

(* fetchWithAuth by wallet w; without one it throws before the request. *)
Send(w, kind, row, of, rest) ==
    /\ made < MaxCalls /\ made' = made + 1
    /\ calls' = rest \cup {[no |-> made + 1, kind |-> kind, by |-> w, row |-> row, of |-> of,
                            at |-> "out", ok |-> FALSE, list |-> NoList]}

Fetch(w, rest) ==
    /\ failed' = FALSE /\ loading' = TRUE /\ Send(w, "fetch", NoRow, NoRow, rest)

(* The effect on [address]. *)
SwitchAccount(w) ==
    /\ w # account /\ account' = w /\ switches < MaxSwitches /\ switches' = switches + 1
    /\ IF w = NoAddress
       THEN open' = FALSE /\ checkingRole' = FALSE /\ UNCHANGED checks
       ELSE /\ checkingRole' = TRUE /\ UNCHANGED open
            /\ checks' = checks \cup {[no |-> switches', by |-> w, at |-> "out", opens |-> FALSE]}
    /\ UNCHANGED <<adminPage, answeredFor, listVars, formVars, storeVars>>

(* The wallet signs and the route answers; or the signature is refused,    *)
(* the answer is lost, or an RPC call fails, which counts as no role.      *)
CheckServed(c) ==
    /\ c \in checks /\ c.at = "out"
    /\ \E opens \in {Opens(c.by), FALSE} :
         checks' = (checks \ {c}) \cup {[c EXCEPT !.at = "back", !.opens = opens]}
    /\ UNCHANGED <<adminPage, account, open, checkingRole, answeredFor, switches,
                   listVars, formVars, storeVars>>

(* The effect on [isAdmin] loads the list when the page opens. *)
OnOpen ==
    IF open' /\ ~open
    THEN /\ UNCHANGED <<shown, newest>>
         /\ IF account = NoAddress THEN failed' = TRUE /\ loading' = FALSE /\ UNCHANGED <<calls, made>>
            ELSE Fetch(account, calls)
    ELSE UNCHANGED listVars

(* Mutant: a check that fails leaves isAdmin as it was. *)
CheckBackKeepsGate(c) ==
    /\ c \in checks /\ c.at = "back" /\ checks' = checks \ {c}
    /\ open' = (open \/ c.opens) /\ checkingRole' = FALSE /\ answeredFor' = c.by /\ OnOpen
    /\ UNCHANGED <<adminPage, account, switches, formVars, storeVars>>

CheckBack(c) ==
    /\ c \in checks /\ c.at = "back" /\ checks' = checks \ {c}
    /\ open' = c.opens /\ checkingRole' = FALSE /\ answeredFor' = c.by /\ OnOpen
    /\ UNCHANGED <<adminPage, account, switches, formVars, storeVars>>

-----------------------------------------------------------------------------
(* The page below its three early returns. *)
Usable == account # NoAddress /\ ~checkingRole /\ open

(* The buttons of a row. *)
TaskButtons == {"toggle", "delete"}
VerificationButtons == {"toggle"}
ReviewButtons == {"review"}
Buttons == CASE adminPage = "tasks" -> TaskButtons [] adminPage = "verification" -> VerificationButtons
             [] OTHER -> ReviewButtons

(* handleToggle, handleDelete, handleApprove and handleReject. *)
PressRow(kind, row) ==
    /\ Usable /\ kind \in Buttons /\ row \in shown.rows
    /\ Send(account, kind, row, row, calls)
    /\ UNCHANGED <<adminPage, gateOfPage, shown, loading, failed, newest, formVars, storeVars>>

startEdit(row) ==
    /\ Usable /\ adminPage # "review" /\ row \in shown.rows
    /\ editing' = row /\ form' = row /\ showForm' = TRUE
    /\ UNCHANGED <<adminPage, gateOfPage, listVars, storeVars>>

resetForm == form' = NoRow

(* The button that says New Task, or Cancel. *)
ToggleForm ==
    /\ Usable /\ adminPage # "review" /\ showForm' = ~showForm /\ editing' = NoRow /\ resetForm
    /\ UNCHANGED <<adminPage, gateOfPage, listVars, storeVars>>

(* POST without editingTask, PUT with it. *)
handleSubmit ==
    /\ Usable /\ showForm /\ ~loading /\ loading' = TRUE
    /\ Send(account, "save", editing, form, calls)
    /\ UNCHANGED <<adminPage, gateOfPage, shown, failed, newest, formVars, storeVars>>

-----------------------------------------------------------------------------
Changed(c) ==
    CASE c.kind = "save" -> stored.rows \cup (IF c.row # NoRow THEN {} ELSE {CHOOSE r \in Rows \ stored.rows : TRUE})
      [] c.kind \in {"delete", "review"} -> stored.rows \ {c.row}
      [] OTHER -> stored.rows
Possible(c) ==
    /\ Serves(c.by) /\ c.kind \notin {"fetch", "save"} => c.row \in stored.rows
    /\ c.kind = "save" => IF c.row = NoRow THEN stored.rows # Rows ELSE c.row \in stored.rows

(* The route does what it is asked and its answer arrives or is lost; or   *)
(* the request fails: unsigned, not authorised, no such row, no network.   *)
Served(c) ==
    /\ c \in calls /\ c.at = "out"
    /\ \/ /\ Possible(c)
          /\ IF c.kind = "fetch" THEN UNCHANGED storeVars
             ELSE stored' = [version |-> stored.version + 1, rows |-> Changed(c)] /\ lastOwn' = stored.version + 1
          /\ \E ok \in BOOLEAN :
               calls' = (calls \ {c}) \cup {[c EXCEPT !.at = "back", !.ok = ok,
                            !.list = IF ok /\ c.kind = "fetch" THEN stored ELSE NoList]}
       \/ /\ UNCHANGED storeVars
          /\ calls' = (calls \ {c}) \cup {[c EXCEPT !.at = "back"]}
    /\ UNCHANGED <<adminPage, gateOfPage, shown, loading, failed, newest, made, formVars>>

(* Another administrator changes a row. *)
StoredElsewhere ==
    /\ stored' = [stored EXCEPT !.version = @ + 1]
    /\ switches < MaxSwitches /\ switches' = switches + 1
    /\ UNCHANGED <<adminPage, account, open, checkingRole, checks, answeredFor, listVars, formVars, lastOwn>>

Back(c) == c \in calls /\ c.at = "back"

(* fetchTasks and fetchQueue. *)
FetchBack(c) ==
    /\ Back(c) /\ c.kind = "fetch" /\ calls' = calls \ {c} /\ loading' = FALSE
    /\ IF c.ok
       THEN /\ shown' = c.list /\ UNCHANGED failed
            /\ newest' = IF c.list.version > newest THEN c.list.version ELSE newest
       ELSE failed' = TRUE /\ UNCHANGED <<shown, newest>>
    /\ UNCHANGED <<adminPage, gateOfPage, made, formVars, storeVars>>

(* The rest of handleSubmit; its finally runs while the list loads. *)
SaveBack(c) ==
    /\ Back(c) /\ c.kind = "save"
    /\ IF c.ok
       THEN /\ showForm' = FALSE /\ editing' = NoRow /\ resetForm
            /\ failed' = FALSE /\ loading' = FALSE /\ Send(c.by, "fetch", NoRow, NoRow, calls \ {c})
       ELSE /\ failed' = TRUE /\ loading' = FALSE /\ calls' = calls \ {c} /\ UNCHANGED <<made, formVars>>
    /\ UNCHANGED <<adminPage, gateOfPage, shown, newest, storeVars>>

RowBack(c) ==
    /\ Back(c) /\ c.kind \in {"toggle", "delete", "review"}
    /\ IF c.ok THEN Fetch(c.by, calls \ {c})
       ELSE failed' = TRUE /\ calls' = calls \ {c} /\ UNCHANGED <<loading, made>>
    /\ UNCHANGED <<adminPage, gateOfPage, shown, newest, formVars, storeVars>>

AdminNext ==
    /\ \/ \E w \in Somebody : SwitchAccount(w)
       \/ \E c \in checks : CheckServed(c) \/ CheckBack(c)
       \/ \E kind \in Kinds, row \in Rows : PressRow(kind, row)
       \/ \E row \in Rows : startEdit(row)
       \/ ToggleForm \/ handleSubmit \/ StoredElsewhere
       \/ \E c \in calls : Served(c) \/ FetchBack(c) \/ SaveBack(c) \/ RowBack(c)
    /\ UNCHANGED gateVars

AdminSpec == GateInit /\ AdminInit /\ [][AdminNext]_<<gateVars, adminVars>>

-----------------------------------------------------------------------------
(* A page open to a wallet on that wallet's own answer is one whose routes *)
(* serve it: the page's check and the middleware agree, and no failed      *)
(* check of the wallet now connected leaves the last one's page open.      *)
OpenPageIsServed == Usable /\ answeredFor = account => Serves(account)

(* Once every request has been answered, the list is at least as new as    *)
(* the page's last change, unless an error is shown or a list that was     *)
(* overtaken came last (each handler loads the list again after its        *)
(* change, and whichever list arrives is shown).                           *)
Overtaken == shown.version < newest
ListCatchesUp == calls = {} /\ open /\ ~failed /\ ~Overtaken => shown.version >= lastOwn

(* The form saves to the row its data was loaded from, and creates a row   *)
(* from a form that was reset, however edits, cancels and answers mix.     *)
FormMatchesTask ==
    /\ showForm => form = editing
    /\ \A c \in calls : c.kind = "save" => c.of = c.row

(* A spinner or a disabled button has a request behind it that will end it. *)
SpinnersHaveCause ==
    /\ checkingRole => \E c \in checks : c.by = account
    /\ loading => \E c \in calls : c.kind \in {"fetch", "save"}

(* Whatever is late, refused or overtaken, an admin page that is open is   *)
(* served, and its list, form and spinners agree.                          *)
AdminPagesInv ==
    AdminTypeOK /\ OpenPageIsServed /\ ListCatchesUp /\ FormMatchesTask /\ SpinnersHaveCause
=============================================================================
