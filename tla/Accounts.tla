--------------------------------- MODULE Accounts ---------------------------------
(***************************************************************************)
(* Registration, login and the check of the bearer token that precedes     *)
(* every writing call.  A person makes one call at a time; registration    *)
(* looks for existing rows and inserts later, the rows are unique by their *)
(* columns email and username.                                             *)
(***************************************************************************)
EXTENDS Integers

CONSTANTS
    People,
    Names,           \* e-mail addresses and user names, as people may type them
    Addresses,       \* those that are e-mail addresses
    Lower,           \* str.lower on Names
    Registrations,   \* the requests people may make to register
    None

ASSUME AccountsAssumption ==
    /\ Addresses \subseteq Names
    /\ Lower \in [Names -> Names]
    /\ \A n \in Names : Lower[Lower[n]] = Lower[n] /\ (Lower[n] \in Addresses <=> n \in Addresses)
    /\ Registrations \subseteq [email: Addresses, username: Names]
    /\ None \notin Names

VARIABLES
    users,     \* the rows of users
    token,     \* token[p]: the row whose access token the browser of p keeps, or None
    call       \* call[p]: the call p is making

accountVars == <<users, token>>

\* The password of an account is known to the person who registered it.
User == [email: Addresses, username: Names, owner: People]

Idle == [step |-> "idle"]
Registering == [step: {"registering"}, data: Registrations, raced: BOOLEAN]

AccountsTypeOK ==
    /\ users \subseteq User
    /\ \A p \in People : token[p] = None \/ token[p] \in User

AccountsInit ==
    /\ users = {}
    /\ token = [p \in People |-> None]

Begin(p, c) ==
    /\ call[p] = Idle
    /\ call' = [call EXCEPT ![p] = c]

\* The call ends; the people whose calls it overtook, of the same kind and with the same
\* rows, know.
Finish(p, overtaken) ==
    call' = [q \in People |->
               CASE q = p -> Idle
                 [] q \in overtaken \ {p} -> [call[q] EXCEPT !.raced = TRUE]
                 [] OTHER -> call[q]]

Drop(p) == call' = [call EXCEPT ![p] = Idle]

-----------------------------------------------------------------------------
(* register_user                                                           *)

Same(u, data) == u.email = data.email \/ u.username = data.username

\* No row has the address, as it was typed, or the name; else the answer is 409.
CheckRegistration(p, data) ==
    /\ \A u \in users : ~Same(u, data)
    /\ Begin(p, [step |-> "registering", data |-> data, raced |-> FALSE])
    /\ UNCHANGED accountVars

RowOf(p, data) ==
    [email |-> Lower[data.email], username |-> data.username, owner |-> p]

\* Mutant: the address is stored as it was typed.
InsertAsTyped(p) ==
    /\ call[p].step = "registering"
    /\ LET row == [RowOf(p, call[p].data) EXCEPT !.email = call[p].data.email]
           overtaken == {q \in People : call[q].step = "registering"}
       IN
        /\ \A u \in users : ~Same(u, row)
        /\ users' = users \cup {row}
        /\ token' = [token EXCEPT ![p] = row]
        /\ Finish(p, overtaken)

\* The row is inserted with the address in lower case.
Insert(p) ==
    /\ call[p].step = "registering"
    /\ LET row == RowOf(p, call[p].data)
           overtaken == {q \in People : call[q].step = "registering"}
       IN
        /\ \A u \in users : ~Same(u, row)
        /\ users' = users \cup {row}
        /\ token' = [token EXCEPT ![p] = row]
        /\ Finish(p, overtaken)

\* A unique column already has the value: an error nobody handles, answered 500.
InsertFails(p) ==
    /\ call[p].step = "registering"
    /\ \E u \in users : Same(u, RowOf(p, call[p].data))
    /\ Drop(p)
    /\ UNCHANGED accountVars

-----------------------------------------------------------------------------
(* login_user, and access                                                  *)

\* The rows login looks at; it takes any one of them.
Found(name) == {u \in users : u.email = name \/ u.username = name}

\* People log in with what they registered with.  The password and the account must fit.
Login(p, typed) ==
    /\ call[p] = Idle
    /\ \E u \in users : u.owner = p /\ typed \in {u.email, u.username}
    /\ \E u \in Found(Lower[typed]) :
        /\ u.owner = p
        /\ token' = [token EXCEPT ![p] = u]
    /\ UNCHANGED <<users, call>>

\* The browser forgets the token.
Logout(p) ==
    /\ call[p] = Idle
    /\ token[p] # None
    /\ token' = [token EXCEPT ![p] = None]
    /\ UNCHANGED <<users, call>>

\* get_current_user_from_request: the token's account exists.  Nothing removes or
\* deactivates one.
Authorized(p) == token[p] \in users

AccountsStep(p) ==
    \/ \E data \in Registrations : CheckRegistration(p, data)
    \/ Insert(p) \/ InsertFails(p)
    \/ \E typed \in Names : Login(p, typed)
    \/ Logout(p)

-----------------------------------------------------------------------------
(* Safety                                                                  *)

\* The owner of an account can log in with its e-mail address in any letter case, and
\* with its user name if that has no capitals: login looks at this row, and at no other
\* unless somebody's user name is an e-mail address.
OwnerIsFound ==
    (\A u \in users : u.username \notin Addresses) =>
        \A u \in users, typed \in Names :
            \/ Lower[typed] = Lower[u.email]
            \/ typed = u.username /\ Lower[typed] = typed
            => Found(Lower[typed]) = {u}

\* A registration that was told the name and the address are free succeeds, unless
\* another one was faster or its address was typed with capitals.
RegistrationSucceeds ==
    \A p \in People :
        call[p].step = "registering" =>
            LET c == call[p] IN
            \/ c.raced
            \/ Lower[c.data.email] # c.data.email
            \/ \A u \in users : ~Same(u, RowOf(p, c.data))
=============================================================================
