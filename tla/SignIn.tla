-------------------------------- MODULE SignIn --------------------------------
(***************************************************************************)
(* Who is signed in and who belongs to an organisation: accounts, their    *)
(* sessions, links sent by mail and codes (app/api/routes/auth.py,         *)
(* app/services/auth_service.py, app/services/token_blacklist.py), and the *)
(* members of an organisation (app/api/routes/organisations.py,            *)
(* app/services/org_service.py).                                           *)
(***************************************************************************)
EXTENDS RowRequests

CONSTANTS
    Users,      \* accounts
    Companies,  \* organisations, each with its members
    Members,    \* who may be a member
    MaxSessions \* bound: sessions and links of an account

ASSUME SessionsAssumption == MaxSessions \in Nat \ {0}

Purposes == {"magic", "verify", "reset"}
Numbers == 1 .. MaxSessions

(* The life of a session, in units of time; one that waits for a code lives   *)
(* for one unit.                                                              *)
Life == 2

(* "spent" is a link that was followed, "void" one that was replaced.         *)
(* "proved" is the secret a code was last checked against at enrolment.       *)
UserRows ==
    [user    : [status : {"none", "active", "suspended", "inactive"}, verified : BOOLEAN],
     mfa     : [secret : 0 .. 2, proved : 0 .. 2, on : BOOLEAN],
     links   : [Purposes -> [Numbers -> {"none", "unused", "late", "spent", "void"}]],
     session : [Numbers -> [kind : {"none", "open", "code"}, left : 0 .. Life,
                            listed : 0 .. Life, out : BOOLEAN]]]
NewUser ==
    [user    |-> [status |-> "none", verified |-> FALSE],
     mfa     |-> [secret |-> 0, proved |-> 0, on |-> FALSE],
     links   |-> [x \in Purposes |-> [n \in Numbers |-> "none"]],
     session |-> [n \in Numbers |-> [kind |-> "none", left |-> 0, listed |-> 0, out |-> FALSE]]]

(* A session that has not ended and is not listed as revoked, of an account   *)
(* that is active now.                                                        *)
Valid(r, n) == r.session[n].left > 0 /\ r.session[n].listed = 0 /\ r.user.status = "active"
Accepting(r, n) == Valid(r, n) /\ r.session[n].kind = "open"

SomeSession(e) == \E n \in Numbers : Accepting(rows[e], n)

(* The next free place of a function of places, if there is one. *)
FirstOf(f, none) == {n \in Numbers : f[n] = none /\ \A m \in 1 .. n - 1 : f[m] # none}
FreeSession(r) == {n \in Numbers : r.session[n].kind = "none"
                                   /\ \A m \in 1 .. n - 1 : r.session[m].kind # "none"}

WithSession(r, n, kind) ==
    [r EXCEPT !.session[n] = [kind |-> kind, left |-> IF kind = "open" THEN Life ELSE 1,
                              listed |-> 0, out |-> FALSE]]

(* A new link voids those of its purpose that nobody has followed. *)
WithLink(r, x, n) ==
    [r EXCEPT !.links[x] = [m \in Numbers |-> IF m = n THEN "unused"
                               ELSE IF @[m] \in {"unused", "late"} THEN "void" ELSE @[m]]]

Register(q, e) ==
    /\ rows[e].user.status = "none"
    /\ Handle(q, e, WithLink(WithSession([rows[e] EXCEPT !.user.status = "active"], 1, "open"),
                             "verify", 1))

CreateUserAdmin(q, e) ==
    /\ rows[e].user.status = "none"
    /\ Handle(q, e, [rows[e] EXCEPT !.user.status = "active"])

Login(q, e) ==
    /\ rows[e].user.status = "active"
    /\ \E n \in FreeSession(rows[e]) :
         Handle(q, e, WithSession(rows[e], n, IF rows[e].mfa.on THEN "code" ELSE "open"))

(* The list keeps the session for as long as one that begins now would last. *)
Logout(q, e, n) ==
    /\ Accepting(rows[e], n)
    /\ Handle(q, e, [rows[e] EXCEPT !.session[n].listed = Life, !.session[n].out = TRUE])

MfaEnrol(q, e) ==
    /\ SomeSession(e) /\ rows[e].mfa.secret < 2
    /\ Handle(q, e, [rows[e] EXCEPT !.mfa.secret = @ + 1])

MfaVerifyEnrolment(q, e) ==
    /\ SomeSession(e) /\ rows[e].mfa.secret # 0
    /\ Handle(q, e, [rows[e] EXCEPT !.mfa.on = TRUE, !.mfa.proved = rows[e].mfa.secret])

(* The session that waited stays; the code opens another one. *)
MfaChallenge(q, e, n) ==
    /\ Valid(rows[e], n)
    /\ rows[e].mfa.on /\ rows[e].mfa.secret # 0
    /\ \E m \in FreeSession(rows[e]) : Handle(q, e, WithSession(rows[e], m, "open"))

MfaDisable(q, e) ==
    /\ SomeSession(e) /\ rows[e].mfa.on /\ rows[e].mfa.secret # 0
    /\ Handle(q, e, [rows[e] EXCEPT !.mfa = NewUser.mfa])

MayRequest(r, x) ==
    IF x = "verify" THEN r.user.status # "none" /\ ~r.user.verified ELSE r.user.status = "active"

RequestLink(q, e, x) ==
    /\ MayRequest(rows[e], x)
    /\ \E n \in FirstOf(rows[e].links[x], "none") : Handle(q, e, WithLink(rows[e], x, n))

Spent(r, x, n) == [r EXCEPT !.links[x][n] = "spent"]

(* The link is spent before the account is looked at. *)
VerifyMagicLink(q, e, n) ==
    /\ rows[e].links["magic"][n] = "unused"
    /\ LET r == Spent(rows[e], "magic", n)
       IN  IF r.user.status = "active"
           THEN \E m \in FreeSession(r) : Handle(q, e, WithSession(r, m, "open"))
           ELSE Handle(q, e, r)

ConfirmEmailVerification(q, e, n) ==
    /\ rows[e].links["verify"][n] = "unused"
    /\ Handle(q, e, [Spent(rows[e], "verify", n) EXCEPT !.user.verified = TRUE])

(* Sessions that are open stay open. *)
ConfirmPasswordReset(q, e, n) ==
    /\ rows[e].links["reset"][n] = "unused"
    /\ Handle(q, e, Spent(rows[e], "reset", n))

UpdateUserAdmin(q, e, status) ==
    /\ rows[e].user.status # "none"
    /\ Handle(q, e, [rows[e] EXCEPT !.user.status = status])

(* Time passes for sessions, for the list, and for the links. *)
Earlier(n) == IF n = 0 THEN 0 ELSE n - 1
Elapse(q, e) ==
    LET r == rows[e]
    IN  Handle(q, e, [r EXCEPT
            !.session = [n \in Numbers |-> [r.session[n] EXCEPT !.left = Earlier(@),
                                                                !.listed = Earlier(@)]],
            !.links = [x \in Purposes |-> [n \in Numbers |->
                          IF r.links[x][n] = "unused" THEN "late" ELSE r.links[x][n]]]])

UserRequest(q, e) ==
    \/ Register(q, e) \/ CreateUserAdmin(q, e) \/ Login(q, e)
    \/ MfaEnrol(q, e) \/ MfaVerifyEnrolment(q, e) \/ MfaDisable(q, e) \/ Elapse(q, e)
    \/ \E n \in Numbers :
          \/ Logout(q, e, n) \/ MfaChallenge(q, e, n) \/ VerifyMagicLink(q, e, n)
          \/ ConfirmEmailVerification(q, e, n) \/ ConfirmPasswordReset(q, e, n)
    \/ \E x \in Purposes : RequestLink(q, e, x)
    \/ \E status \in {"active", "suspended", "inactive"} : UpdateUserAdmin(q, e, status)

-----------------------------------------------------------------------------
CompanyRows ==
    [org     : [exists : BOOLEAN, questions : BOOLEAN, terms : {"none", "accepted"},
                accountable : BOOLEAN],
     member  : [Members -> [role : {"none", "owner", "admin", "staff"},
                            status : {"active", "suspended"}]],
     primary : [Members -> BOOLEAN]]
NewCompany ==
    [org     |-> [exists |-> FALSE, questions |-> FALSE, terms |-> "none", accountable |-> FALSE],
     member  |-> [u \in Members |-> [role |-> "none", status |-> "active"]],
     primary |-> [u \in Members |-> FALSE]]

(* The organisation is committed before its owner and its questions: what     *)
(* stops in between leaves one that nobody manages.                           *)
CreateOrganisation(q, e, u, lost) ==
    /\ ~rows[e].org.exists
    /\ Handle(q, e,
           IF lost THEN [rows[e] EXCEPT !.org.exists = TRUE]
           ELSE [rows[e] EXCEPT !.org.exists = TRUE, !.org.questions = TRUE,
                                !.member[u] = [role |-> "owner", status |-> "active"],
                                !.primary[u] = TRUE])

(* Those who manage an organisation are its owner and its administrators. *)
Manages(r, u) == r.member[u].role \in {"owner", "admin"} /\ r.member[u].status = "active"

(* Someone who is a member already keeps the role he has. *)
AddMember(q, e, by, u, role) ==
    /\ Manages(rows[e], by)
    /\ rows[e].member[u].role = "none"
    /\ Handle(q, e, [rows[e] EXCEPT !.member[u] = [role |-> role, status |-> "active"],
                                    !.primary[u] = TRUE])

UpdateMember(q, e, by, u, role, status) ==
    /\ Manages(rows[e], by)
    /\ rows[e].member[u].role # "none"
    /\ Handle(q, e, [rows[e] EXCEPT !.member[u] = [role |-> role, status |-> status]])

(* The cached organisation of the user stays. *)
RemoveMember(q, e, by, u) ==
    /\ Manages(rows[e], by)
    /\ rows[e].member[u].role # "none"
    /\ Handle(q, e, [rows[e] EXCEPT !.member[u] = NewCompany.member[u]])

AcknowledgeAmlAccountability(q, e, by, accepted) ==
    /\ Manages(rows[e], by)
    /\ Handle(q, e, [rows[e] EXCEPT !.org.accountable = TRUE,
                                    !.org.terms = IF accepted THEN "accepted" ELSE "none"])

CompanyRequest(q, e) ==
    \/ \E u \in Members, lost \in BOOLEAN : CreateOrganisation(q, e, u, lost)
    \/ \E by, u \in Members :
          \/ RemoveMember(q, e, by, u)
          \/ \E role \in {"owner", "admin", "staff"} :
                \/ AddMember(q, e, by, u, role)
                \/ \E status \in {"active", "suspended"} : UpdateMember(q, e, by, u, role, status)
    \/ \E by \in Members, yes \in BOOLEAN : AcknowledgeAmlAccountability(q, e, by, yes)

-----------------------------------------------------------------------------
UserSound(r) ==
    /\ \A x \in Purposes : Cardinality({n \in Numbers : r.links[x][n] = "unused"}) <= 1
    /\ r.user.verified => \E n \in Numbers : r.links["verify"][n] = "spent"
    /\ r.mfa.on => r.mfa.secret # 0 /\ r.mfa.proved # 0
    /\ \A n \in Numbers : r.session[n].out => ~Accepting(r, n)
CompanySound(r) ==
    /\ \A u \in Members : r.member[u].role # "none" => r.primary[u]
    /\ (\E u \in Members : r.primary[u]) \/ r.org.accountable => r.org.questions

(* Of the links of one purpose at most one can still be followed, however     *)
(* many were sent; an address is verified by a link that was followed; a      *)
(* second factor that is asked for has a secret, and one that a code was      *)
(* checked against before.  A session that was ended is accepted at no later  *)
(* time, also when the list has forgotten it.  And whoever is a member of an  *)
(* organisation, has it as the cached one, or accepted its terms, stands      *)
(* beside an owner and the questions that came with him.                      *)
SignedInSound ==
    /\ \A e \in Users \ raced : UserSound(rows[e])
    /\ \A e \in Companies \ raced : CompanySound(rows[e])

=============================================================================
