------------------------------- MODULE Session -------------------------------
(***************************************************************************)
(* The session of one tab of the web client: AuthProvider                  *)
(* (AuthContext.tsx), the token in localStorage that http.ts sends, the    *)
(* page of the login, and PrivateRoute around all other pages.             *)
(*                                                                         *)
(* Answers may be late: nothing that is under way is given up when the     *)
(* token changes, except by a reload.  Other tabs share localStorage, and  *)
(* nobody is told of their changes.  What the server answers is left open; *)
(* every login has a token of its own.  Roles, and going back in the       *)
(* history of the browser, are left out.                                   *)
(***************************************************************************)
EXTENDS Naturals

CONSTANTS Token,         \* bound: what logins may return, each once
          Owner,         \* the user each token was made for
          None,
          MaxRequests    \* bound: of the pages, and logouts, under way together

SessionAssumption == None \notin Token /\ MaxRequests \in Nat

VARIABLES stored,       \* localStorage: None, or a token
          issued,       \* tokens that logins have returned, in this tab or another
          token, user, loading,    \* state of AuthProvider
          route,        \* "login", or "page": any other
          loads,        \* tokens that getCurrentUser is under way with
          entering,     \* the login form is sent
          logouts, requests,       \* how many logouts, and requests of the pages, are under way
          late,         \* history: the last load that was answered was not the present token's
          foreign       \* history: stored is another tab's doing

state == <<stored, token, user, loading, late, foreign>>
underWay == <<loads, entering, logouts, requests>>
vars == <<state, issued, route, underWay>>

Tokens == Token \cup {None}

(* Who is to be shown with a token                                         *)
UserOf(t) == IF t = None THEN None ELSE Owner[t]

(* What a page that is loaded finds is taken for the token, and its user   *)
(* asked for.                                                              *)
Init == /\ stored \in Tokens /\ issued = {stored} \ {None}
        /\ token = stored /\ user = None /\ loading = (stored # None)
        /\ loads = {stored} \ {None}
        /\ route \in (IF stored = None THEN {"login"} ELSE {"login", "page"})
        /\ entering = FALSE /\ logouts = 0 /\ requests = 0
        /\ late = FALSE /\ foreign = FALSE

(* Reloading the page, or entering an address                              *)
Reload == /\ token' = stored /\ user' = None /\ loading' = (stored # None)
          /\ loads' = {stored} \ {None}
          /\ route' \in (IF stored = None THEN {"login"} ELSE {"login", "page"})
          /\ entering' = FALSE /\ logouts' = 0 /\ requests' = 0
          /\ late' = FALSE /\ foreign' = FALSE
          /\ UNCHANGED <<stored, issued>>

(* Mutant: the token that is stored stays.                                 *)
MutClear == /\ token' = None /\ user' = None
            /\ loading' = FALSE /\ late' = FALSE
            /\ UNCHANGED <<stored, foreign>>

(* The token is dropped wherever it is kept, whichever it is by now; the   *)
(* effect on the token then has nothing to load.                           *)
Clear == /\ stored' = None /\ token' = None /\ user' = None
         /\ loading' = FALSE /\ late' = FALSE /\ foreign' = FALSE

(* PrivateRoute: to the login, when there is no user and none awaited      *)
Redirect == route' = IF ~loading' /\ user' = None THEN "login" ELSE route

-----------------------------------------------------------------------------
(* loadUser                                                                *)

(* The answer is taken whichever token there is by now.                    *)
LoadAnswer(t) ==
    /\ t \in loads /\ loads' = loads \ {t}
    /\ user' = Owner[t] /\ loading' = FALSE /\ late' = (t # token)
    /\ UNCHANGED <<stored, issued, token, foreign, route, entering, logouts, requests>>

(* Any failure drops the token.                                            *)
LoadFails(t) == /\ t \in loads /\ loads' = loads \ {t}
                /\ Clear /\ Redirect
                /\ UNCHANGED <<issued, entering, logouts, requests>>

-----------------------------------------------------------------------------
(* Login and logout                                                        *)

HandleSubmit == /\ route = "login" /\ ~entering
                /\ entering' = TRUE
                /\ UNCHANGED <<state, issued, route, loads, logouts, requests>>

(* The user is set with the token, and loaded once more by the effect on   *)
(* it; the page is the one that was asked for before.                      *)
LoginAnswer(t) ==
    /\ entering /\ t \notin issued
    /\ entering' = FALSE /\ issued' = issued \cup {t}
    /\ stored' = t /\ token' = t /\ user' = Owner[t] /\ late' = FALSE /\ foreign' = FALSE
    /\ loads' = loads \cup {t} /\ loading' = TRUE
    /\ route' = "page"
    /\ UNCHANGED <<logouts, requests>>

(* A wrong password is answered with 401, like a token that is not valid.  *)
LoginFails == /\ entering /\ entering' = FALSE
              /\ \/ Clear /\ Redirect
                 \/ UNCHANGED <<state, route>>
              /\ UNCHANGED <<issued, loads, logouts, requests>>

(* PrivateRoute shows its page.                                            *)
Shown == route = "page" /\ ~loading /\ user # None

HandleLogout == /\ Shown /\ logouts < MaxRequests
                /\ logouts' = logouts + 1
                /\ UNCHANGED <<state, issued, route, loads, entering, requests>>

(* However it is answered; NavBar then goes to the login.                  *)
LogoutAnswer == /\ logouts > 0 /\ logouts' = logouts - 1
                /\ Clear /\ route' = "login"
                /\ UNCHANGED <<issued, loads, entering, requests>>

-----------------------------------------------------------------------------
(* Requests of the pages                                                   *)

Request == /\ Shown /\ requests < MaxRequests
           /\ requests' = requests + 1
           /\ UNCHANGED <<state, issued, route, loads, entering, logouts>>

(* 401: the token is not valid, or the old password is wrong.              *)
HandleUnauthorized == Clear /\ Redirect

RequestAnswer == /\ requests > 0 /\ requests' = requests - 1
                 /\ HandleUnauthorized \/ UNCHANGED <<state, route>>
                 /\ UNCHANGED <<issued, loads, entering, logouts>>

-----------------------------------------------------------------------------

(* Another tab logs in or out.                                             *)
OtherTab(t) == /\ t \notin issued
               /\ stored' = t /\ foreign' = TRUE
               /\ issued' = issued \cup ({t} \ {None})
               /\ UNCHANGED <<token, user, loading, late, route, underWay>>

Next == \/ Reload
        \/ \E t \in Token : LoadAnswer(t) \/ LoadFails(t) \/ LoginAnswer(t)
        \/ HandleSubmit \/ LoginFails \/ HandleLogout \/ LogoutAnswer
        \/ Request \/ RequestAnswer
        \/ \E t \in Tokens : OtherTab(t)

Spec == Init /\ [][Next]_vars
-----------------------------------------------------------------------------
(* Properties                                                              *)

(* The state has its types.                                                *)
TypeOK == /\ {stored, token} \subseteq Tokens
          /\ user \in {None} \cup {Owner[t] : t \in Token}
          /\ route \in {"login", "page"} /\ loads \subseteq issued /\ issued \subseteq Token
          /\ {logouts, requests} \subseteq 0..MaxRequests
          /\ {loading, entering, late, foreign} \subseteq BOOLEAN

(* When no user is being loaded, nobody waits for one; the user who is     *)
(* shown is the one the token was made for, nobody without a token, unless *)
(* a load begun for an earlier token was answered last; and the token is   *)
(* the one that is stored and sent, unless another tab changed it          *)
(* (AuthContext.tsx:59-80, 85-109, 121-134, http.ts:50-62).                *)
SessionAgrees == loads = {} => /\ ~loading
                               /\ ~late => user = UserOf(token)
                               /\ ~foreign => token = stored
=============================================================================
