------------------------------- MODULE Accounts ------------------------------
(***************************************************************************)
(* User accounts: registration, changes of name and e-mail, and sign-in    *)
(* with an OAuth provider, which finds the account by the provider's id,   *)
(* else links the account of the e-mail, else creates one.  Every request  *)
(* reads, then writes and commits; the only constraints of the table are   *)
(* that names and e-mails are unique.                                      *)
(***************************************************************************)
EXTENDS Integers

CONSTANTS Requests,     \* requests in flight at one time
          Emails,
          Identities,   \* accounts at an OAuth provider
          EmailOf,      \* the e-mail the provider reports of each
          Null,
          MaxAccounts,  \* bound: accounts created
          MaxRequests,  \* bound: requests made
          MaxFaults     \* bound: commits and providers that fail

VARIABLES user,      \* id -> [name, email, password, link, role], or Null
          created,   \* accounts created
          req,       \* the request of each member of Requests, between read and commit
          requests, faults,
          home,      \* history: the account that an identity was last signed in to
          strayed,   \* history: identities that were signed in to another account than
                     \* their home while that could be found
          crossed    \* history: identities whose sign-in overlapped a write that concerns it

vars == <<user, created, req, requests, faults, home, strayed, crossed>>

Ids == 1 .. MaxAccounts

\* "base", "base_1", ...: what registrations ask for and what sign-ins generate.
Names == 0 .. MaxAccounts

Account ==
    [name : Names, email : Emails, password : BOOLEAN, link : Identities \cup {Null}, role : {"user", "admin"}]

Idle == [pc |-> "idle"]

\* What a request is about to write.
Request ==
    {Idle} \cup [pc : {"create"}, name : Names, email : Emails, password : BOOLEAN, by : Identities \cup {Null}]
           \cup [pc : {"link"}, id : Ids, by : Identities]
           \cup [pc : {"info"}, id : Ids, name : Names, email : Emails, by : {Null}]

AccountsAssumption ==
    /\ MaxAccounts \in Nat \ {0}
    /\ EmailOf \in [Identities -> Emails]
    /\ Null \notin Nat /\ Null \notin Identities /\ Null \notin Account

Init ==
    /\ user = [a \in Ids |-> Null]
    /\ created = 0
    /\ req = [q \in Requests |-> Idle]
    /\ requests = 0 /\ faults = 0
    /\ home = [i \in Identities |-> Null]
    /\ strayed = {} /\ crossed = {}

Accounts == {a \in Ids : user[a] # Null}

Fault == faults < MaxFaults /\ faults' = faults + 1

Begins(q, r) ==
    /\ req[q].pc = "idle" /\ requests < MaxRequests
    /\ requests' = requests + 1
    /\ req' = [req EXCEPT ![q] = r]

Ends(q) == req' = [req EXCEPT ![q] = Idle]

\* username_exists and email_exists, not counting the account itself.
NameTaken(n, self) == \E a \in Accounts \ {self} : user[a].name = n
EmailTaken(e, self) == \E a \in Accounts \ {self} : user[a].email = e

\* _generate_unique_username
UniqueName == CHOOSE n \in Names : ~NameTaken(n, Null) /\ \A m \in 0 .. (n - 1) : NameTaken(m, Null)

FindByOAuth(i) == {a \in Accounts : user[a].link = i}
FindByEmail(e) == {a \in Accounts : user[a].email = e}

\* Sign-ins between their read and their commit, which a write to the row of
\* their e-mail or of their link can make stale.
Overlapped(q, e, link) ==
    {i \in Identities : (EmailOf[i] = e \/ i = link)
        /\ \E o \in Requests \ {q} : req[o].pc # "idle" /\ req[o].by = i}

-----------------------------------------------------------------------------
(* Requests, up to the point where they have read *)

\* register refuses a name or an e-mail that is taken.
Register(q, n, e) ==
    /\ ~NameTaken(n, Null) /\ ~EmailTaken(e, Null)
    /\ Begins(q, [pc |-> "create", name |-> n, email |-> e, password |-> TRUE, by |-> Null])
    /\ UNCHANGED <<user, created, faults, home, strayed, crossed>>

\* update_user_info: both checks pass, or the error rolls back what the first
\* of them allowed.
ChangeInfo(q, a, n, e) ==
    /\ a \in Accounts /\ ~NameTaken(n, a) /\ ~EmailTaken(e, a)
    /\ Begins(q, [pc |-> "info", id |-> a, name |-> n, email |-> e, by |-> Null])
    /\ UNCHANGED <<user, created, faults, home, strayed, crossed>>

\* The e-mail before the id of the provider, for comparison.
EmailFirst(i) ==
    IF FindByEmail(EmailOf[i]) # {} THEN FindByEmail(EmailOf[i]) ELSE FindByOAuth(i)

OAuthFirst(i) ==
    IF FindByOAuth(i) # {} THEN FindByOAuth(i) ELSE FindByEmail(EmailOf[i])

Stray(i, a) ==
    /\ home[i] # Null /\ a # home[i]
    /\ user[home[i]].link = i \/ user[home[i]].email = EmailOf[i]

\* oauth_callback after the exchange of the code: get_or_create_oauth_user.
SignIn(q, i) ==
    /\ UNCHANGED <<user, created, faults, crossed>>
    /\ IF OAuthFirst(i) = {}
       THEN /\ Begins(q, [pc |-> "create", name |-> UniqueName, email |-> EmailOf[i],
                          password |-> FALSE, by |-> i])
            /\ UNCHANGED <<home, strayed>>
       ELSE \E a \in OAuthFirst(i) :
               /\ strayed' = IF Stray(i, a) THEN strayed \cup {i} ELSE strayed
               /\ IF user[a].link = i
                  THEN /\ Begins(q, Idle)
                       /\ home' = [home EXCEPT ![i] = a]
                  ELSE /\ Begins(q, [pc |-> "link", id |-> a, by |-> i])
                       /\ UNCHANGED home

\* The exchange fails: "OAuth provider error".
ExchangeFails(q) ==
    /\ Begins(q, Idle) /\ Fault
    /\ UNCHANGED <<user, created, home, strayed, crossed>>

-----------------------------------------------------------------------------
(* Their flush and commit *)

\* The unique indexes decide between two that read the same.
CommitCreate(q) ==
    LET r == req[q]
        id == created + 1
    IN  /\ r.pc = "create" /\ created < MaxAccounts
        /\ ~NameTaken(r.name, Null) /\ ~EmailTaken(r.email, Null)
        /\ created' = id
        /\ user' = [user EXCEPT ![id] = [name |-> r.name, email |-> r.email, password |-> r.password,
                                         link |-> r.by, role |-> "user"]]
        /\ home' = IF r.by = Null THEN home ELSE [home EXCEPT ![r.by] = id]
        /\ crossed' = crossed \cup Overlapped(q, r.email, r.by)
        /\ Ends(q)
        /\ UNCHANGED <<requests, faults, strayed>>

\* The flush sets the two columns of the link.
CommitLink(q) ==
    LET r == req[q]
    IN  /\ r.pc = "link"
        /\ user' = [user EXCEPT ![r.id].link = r.by]
        /\ home' = [home EXCEPT ![r.by] = r.id]
        /\ crossed' = crossed \cup Overlapped(q, user[r.id].email, r.by)
                              \cup Overlapped(q, Null, user[r.id].link)
        /\ Ends(q)
        /\ UNCHANGED <<created, requests, faults, strayed>>

CommitInfo(q) ==
    LET r == req[q]
    IN  /\ r.pc = "info" /\ ~NameTaken(r.name, r.id) /\ ~EmailTaken(r.email, r.id)
        /\ user' = [user EXCEPT ![r.id] = [@ EXCEPT !.name = r.name, !.email = r.email]]
        /\ crossed' = crossed \cup Overlapped(q, r.email, Null) \cup Overlapped(q, user[r.id].email, Null)
        /\ Ends(q)
        /\ UNCHANGED <<created, requests, faults, home, strayed>>

\* The index refuses, "An internal error occurred", and get_db rolls back.
Refused(q) ==
    LET r == req[q]
    IN  /\ \/ r.pc = "create" /\ (NameTaken(r.name, Null) \/ EmailTaken(r.email, Null))
           \/ r.pc = "info" /\ (NameTaken(r.name, r.id) \/ EmailTaken(r.email, r.id))
        /\ Ends(q)
        /\ UNCHANGED <<user, created, requests, faults, home, strayed, crossed>>

CommitFails(q) ==
    /\ req[q].pc # "idle" /\ Fault
    /\ Ends(q)
    /\ UNCHANGED <<user, created, requests, home, strayed, crossed>>

\* reset_password, which gives an account of a provider a password as well.
ResetPassword(q, a) ==
    /\ a \in Accounts
    /\ Begins(q, Idle)
    /\ user' = [user EXCEPT ![a].password = TRUE]
    /\ UNCHANGED <<created, faults, home, strayed, crossed>>

\* update_user_role
UpdateRole(q, a, role) ==
    /\ a \in Accounts
    /\ Begins(q, Idle)
    /\ user' = [user EXCEPT ![a].role = role]
    /\ UNCHANGED <<created, faults, home, strayed, crossed>>

Next ==
    \E q \in Requests :
       \/ \E n \in 0 .. 1, e \in Emails :
             Register(q, n, e) \/ \E a \in Ids : ChangeInfo(q, a, n, e)
       \/ \E i \in Identities : SignIn(q, i)
       \/ ExchangeFails(q)
       \/ CommitCreate(q) \/ CommitLink(q) \/ CommitInfo(q) \/ Refused(q) \/ CommitFails(q)
       \/ \E a \in Ids : ResetPassword(q, a) \/ \E role \in {"user", "admin"} : UpdateRole(q, a, role)

Spec == Init /\ [][Next]_vars

-----------------------------------------------------------------------------
(* Properties *)

TypeOK ==
    /\ created \in Ids \cup {0} /\ Accounts = 1 .. created
    /\ user \in [Ids -> Account \cup {Null}]
    /\ req \in [Requests -> Request]
    /\ home \in [Identities -> Ids \cup {Null}]

\* However names and e-mails change and providers are linked, names and e-mails
\* stay unique, every account has a way in, and an identity of a provider that
\* was signed in to an account is signed in to it again as long as the account
\* carries its link or its e-mail; and no two accounts carry one link, unless a
\* write to such an account fell between the read and the commit of a sign-in.
IdentityKeepsAccount ==
    /\ TypeOK
    /\ \A a, b \in Accounts : a # b => user[a].name # user[b].name /\ user[a].email # user[b].email
    /\ \A a \in Accounts : user[a].password \/ user[a].link # Null
    /\ strayed \subseteq crossed
    /\ \A i \in Identities \ crossed : \A a, b \in FindByOAuth(i) : a = b
=============================================================================
