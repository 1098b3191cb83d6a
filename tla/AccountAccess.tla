---------------------------- MODULE AccountAccess ----------------------------
(***************************************************************************)
(* Signing in: one-time codes, third-party identities, invitations, sessions,  *)
(* and the administrator who changes the registration mode, disables or         *)
(* deletes accounts.  A person has one e-mail address and one third-party        *)
(* identity.  A visitor is a request between two of its statements: the checks   *)
(* of one are not in the transaction of the next.                                 *)
(***************************************************************************)
EXTENDS Naturals, Sequences

CONSTANTS
    People,        \* e-mail addresses
    Visitors,      \* requests of anonymous visitors under way
    Invitations,   \* invitation codes
    MaxAccounts,   \* bound on rows of users
    MaxBlocks,     \* bound on administrators' disabling an account
    MaxOtpCodes    \* bound on codes sent to an address

ASSUME AccessAssumption ==
    MaxAccounts \in Nat /\ MaxBlocks \in Nat /\ MaxOtpCodes \in Nat

VARIABLES
    accounts,      \* users, in the order they were inserted
    identity,      \* oauth_identities: the account an active link names, or 0
    invitation,    \* per code: its state and the account it admitted
    openMode,      \* registration_settings.mode is 'open'
    otp,           \* per person: the live codes, oldest first
    awaitsInvite,  \* persons with an oauth:challenge in Redis
    sessions,      \* sessions not revoked: the account and its blocks when it was checked
    visitor        \* per request: what it has checked

accessVars == <<accounts, identity, invitation, openMode, otp, awaitsInvite, sessions, visitor>>

AccountIds == 1 .. MaxAccounts
NoInvitation == [code |-> FALSE]
Gates == Invitations \cup {NoInvitation}
Account == [ owner : People, status : {"active", "disabled", "deleted"}, blocks : 0 .. MaxBlocks ]
Session == [ account : AccountIds, blocks : 0 .. MaxBlocks ]
NoVisit == [ at |-> "idle" ]
Visitor ==
    {NoVisit}
        \cup [at : {"otp", "send", "mail"}, person : People, gate : Gates]
        \cup [at : {"issue"}, session : Session]
        \cup [at : {"signup"}, person : People]
        \cup [at : {"redeem"}, person : People, gate : Invitations, session : Session \cup {NoVisit}]

AccessTypeOK ==
    /\ accounts \in Seq(Account) /\ Len(accounts) <= MaxAccounts
    /\ identity \in [People -> 0 .. MaxAccounts]
    /\ invitation \in [Invitations ->
            [state : {"none", "live", "consumed", "revoked", "expired"}, admitted : SUBSET AccountIds]]
    /\ openMode \in BOOLEAN
    /\ \A p \in People :
         Len(otp[p]) <= MaxOtpCodes /\ otp[p] \in Seq(Gates)
    /\ awaitsInvite \subseteq People
    /\ sessions \subseteq Session
    /\ visitor \in [Visitors -> Visitor]

AccessInit ==
    /\ accounts = << >> /\ identity = [p \in People |-> 0]
    /\ invitation = [i \in Invitations |-> [state |-> "none", admitted |-> {}]]
    /\ openMode = TRUE
    /\ otp = [p \in People |-> << >>]
    /\ awaitsInvite = {} /\ sessions = {}
    /\ visitor = [v \in Visitors |-> NoVisit]
-----------------------------------------------------------------------------
Existing == DOMAIN accounts
Of(p) == {a \in Existing : accounts[a].owner = p /\ accounts[a].status # "deleted"}   \* at most one
Active(a) == accounts[a].status = "active"
SessionOf(a) == [account |-> a, blocks |-> accounts[a].blocks]
NewAccount(p) == [owner |-> p, status |-> "active", blocks |-> 0]
NextId == Len(accounts) + 1

\* The row lock of an invitation consumed by a transaction still open.
Held(i) == \E v \in Visitors : visitor[v].at = "redeem" /\ visitor[v].gate = i

\* Mutant: the consuming UPDATE forgets consumed_at IS NULL.
ConsumableAgain(i) == invitation[i].state \in {"live", "consumed"}
Consumable(i) == invitation[i].state = "live"

Consumed(i, a) == [invitation EXCEPT ![i].state = "consumed", ![i].admitted = @ \cup {a}]

Visit(v, from, to) ==
    /\ visitor[v].at = from
    /\ visitor' = [visitor EXCEPT ![v] = to]
-----------------------------------------------------------------------------
(* requestOtp and verifyOtp                                                    *)
\* A deleted account with no living successor is ACCOUNT_UNAVAILABLE.
requestOtp(v, p) ==
    /\ \A a \in Of(p) : Active(a)
    /\ Of(p) = {} => \A a \in Existing : accounts[a].owner # p
    /\ \E g \in Gates :
         /\ (g # NoInvitation) <=> (Of(p) = {} /\ ~ openMode)
         /\ g # NoInvitation => Consumable(g)
         /\ Visit(v, "idle", [at |-> "otp", person |-> p, gate |-> g])
    /\ UNCHANGED <<accounts, identity, invitation, openMode, otp, awaitsInvite, sessions>>

\* Earlier codes are consumed by one statement, the new one is inserted by the next.
SupersedeCodes(v) ==
    /\ Visit(v, "otp", [visitor[v] EXCEPT !.at = "send"])
    /\ otp' = [otp EXCEPT ![visitor[v].person] = << >>]
    /\ UNCHANGED <<accounts, identity, invitation, openMode, awaitsInvite, sessions>>

InsertCode(v) ==
    /\ Visit(v, "send", [visitor[v] EXCEPT !.at = "mail"])
    /\ LET p == visitor[v].person IN
         /\ Len(otp[p]) < MaxOtpCodes
         /\ otp' = [otp EXCEPT ![p] = Append(@, visitor[v].gate)]
    /\ UNCHANGED <<accounts, identity, invitation, openMode, awaitsInvite, sessions>>

\* A code that could not be delivered is consumed; so is one that has expired
\* or has met five wrong guesses, which leaves the older ones.
LoseCode(p, n) ==
    /\ n \in DOMAIN otp[p]
    /\ otp' = [otp EXCEPT ![p] = SubSeq(@, 1, n - 1) \o SubSeq(@, n + 1, Len(@))]
    /\ UNCHANGED <<accounts, identity, invitation, openMode, awaitsInvite, sessions, visitor>>

CodeDelivered(v) ==
    /\ Visit(v, "mail", NoVisit)
    /\ UNCHANGED <<accounts, identity, invitation, openMode, otp, awaitsInvite, sessions>>

\* One transaction, holding the code, the account and, for a new account, the mode.
verifyOtp(p) ==
    /\ otp[p] # << >>
    /\ LET gate == otp[p][Len(otp[p])]
           a == IF Of(p) = {} THEN NextId ELSE CHOOSE b \in Of(p) : TRUE
       IN
       /\ \/ /\ Of(p) # {} /\ Active(a)
             /\ UNCHANGED <<accounts, invitation>>
             /\ sessions' = sessions \cup {SessionOf(a)}
          \/ /\ Of(p) = {} /\ a \in AccountIds
             /\ \/ openMode /\ UNCHANGED invitation
                \/ /\ ~ openMode /\ gate # NoInvitation
                   /\ ~ Held(gate) /\ Consumable(gate)
                   /\ invitation' = Consumed(gate, a)
             /\ accounts' = Append(accounts, NewAccount(p))
             /\ sessions' = sessions \cup {[account |-> a, blocks |-> 0]}
       /\ otp' = [otp EXCEPT ![p] = SubSeq(@, 1, Len(@) - 1)]
    /\ UNCHANGED <<identity, openMode, awaitsInvite, visitor>>
-----------------------------------------------------------------------------
(* handleOAuthCallback, after the provider vouched for the address              *)
\* 1. a linked identity; 2/3. an account with the address, which gets the link:
\* the status is checked now, the session is inserted by a later statement.
loginWithIdentity(v, p) ==
    LET linked == {a \in Existing : identity[p] = a /\ accounts[a].status # "deleted"} IN
    /\ \/ \E a \in linked :
            /\ Active(a)
            /\ Visit(v, "idle", [at |-> "issue", session |-> SessionOf(a)])
            /\ UNCHANGED <<identity, awaitsInvite>>
       \/ \E a \in Of(p) :
            /\ linked = {} /\ Active(a) /\ identity[p] = 0
            /\ identity' = [identity EXCEPT ![p] = a]
            /\ Visit(v, "idle", [at |-> "issue", session |-> SessionOf(a)])
            /\ UNCHANGED awaitsInvite
       \/ /\ linked = {} /\ Of(p) = {} /\ openMode
          /\ Visit(v, "idle", [at |-> "signup", person |-> p])
          /\ UNCHANGED <<identity, awaitsInvite>>
       \/ /\ linked = {} /\ Of(p) = {} /\ ~ openMode
          /\ awaitsInvite' = awaitsInvite \cup {p}
          /\ UNCHANGED <<identity, visitor>>
    /\ UNCHANGED <<accounts, invitation, openMode, otp, sessions>>

\* 4. The new row and its link, or neither when the address or the link is taken.
SignUp(v) ==
    LET p == visitor[v].person IN
    /\ visitor[v].at = "signup"
    /\ \/ /\ Of(p) = {} /\ identity[p] = 0 /\ NextId \in AccountIds
          /\ accounts' = Append(accounts, NewAccount(p))
          /\ identity' = [identity EXCEPT ![p] = NextId]
          /\ Visit(v, "signup", [at |-> "issue", session |-> [account |-> NextId, blocks |-> 0]])
       \/ /\ Of(p) # {} \/ identity[p] # 0
          /\ Visit(v, "signup", NoVisit)
          /\ UNCHANGED <<accounts, identity>>
    /\ UNCHANGED <<invitation, openMode, otp, awaitsInvite, sessions>>

issueSession(v) ==
    /\ Visit(v, "issue", NoVisit)
    /\ sessions' = sessions \cup {visitor[v].session}
    /\ UNCHANGED <<accounts, identity, invitation, openMode, otp, awaitsInvite>>

\* 5. The challenge is taken from Redis, the code consumed under its row lock,
\* the account read without a lock.
completeOAuthInvitation(v, p, i) ==
    /\ p \in awaitsInvite
    /\ awaitsInvite' = awaitsInvite \ {p}
    /\ IF Consumable(i) /\ ~ Held(i) /\ \A a \in Of(p) : Active(a)
       THEN \E s \in IF Of(p) = {} THEN {NoVisit} ELSE {SessionOf(a) : a \in Of(p)} :
              Visit(v, "idle", [at |-> "redeem", person |-> p, gate |-> i, session |-> s])
       ELSE visitor[v].at = "idle" /\ UNCHANGED visitor
    /\ UNCHANGED <<accounts, identity, invitation, openMode, otp, sessions>>

\* InvitationFlowAbort, a taken address or a lost connection roll everything back.
RedeemRollsBack(v) ==
    /\ Visit(v, "redeem", NoVisit)
    /\ UNCHANGED <<accounts, identity, invitation, openMode, otp, awaitsInvite, sessions>>

RedeemCommits(v) ==
    LET p == visitor[v].person  new == visitor[v].session = NoVisit
        s == IF new THEN [account |-> NextId, blocks |-> 0] ELSE visitor[v].session
    IN
    /\ Visit(v, "redeem", NoVisit)
    /\ identity[p] = 0
    /\ new => Of(p) = {} /\ NextId \in AccountIds
    /\ accounts' = IF new THEN Append(accounts, NewAccount(p)) ELSE accounts
    /\ invitation' = Consumed(visitor[v].gate, s.account)
    /\ identity' = [identity EXCEPT ![p] = s.account]
    /\ sessions' = sessions \cup {s}
    /\ UNCHANGED <<openMode, otp, awaitsInvite>>
-----------------------------------------------------------------------------
(* The account's owner and the administrator                                   *)
logout(s) ==
    /\ s \in sessions
    /\ sessions' = sessions \ {s}
    /\ UNCHANGED <<accounts, identity, invitation, openMode, otp, awaitsInvite, visitor>>

Usable(s) == s \in sessions /\ Active(s.account)   \* actorFrom

linkIdentity(s) ==
    /\ Usable(s)
    /\ LET p == accounts[s.account].owner IN
         /\ identity[p] = 0
         /\ identity' = [identity EXCEPT ![p] = s.account]
    /\ UNCHANGED <<accounts, invitation, openMode, otp, awaitsInvite, sessions, visitor>>

unlinkIdentity(s) ==
    /\ Usable(s)
    /\ identity[accounts[s.account].owner] = s.account
    /\ identity' = [identity EXCEPT ![accounts[s.account].owner] = 0]
    /\ UNCHANGED <<accounts, invitation, openMode, otp, awaitsInvite, sessions, visitor>>

setRegistrationMode ==
    /\ openMode' = ~ openMode
    /\ UNCHANGED <<accounts, identity, invitation, otp, awaitsInvite, sessions, visitor>>

\* createInvitation, revokeInvitation (unconsumed only), and seven days passing.
InvitationMoves(i, from, to) ==
    /\ ~ Held(i)
    /\ invitation[i].state = from
    /\ invitation' = [invitation EXCEPT ![i].state = to]
    /\ UNCHANGED <<accounts, identity, openMode, otp, awaitsInvite, sessions, visitor>>

Blocked(a, status) ==
    /\ accounts[a].blocks < MaxBlocks
    /\ accounts' = [accounts EXCEPT ![a].status = status, ![a].blocks = @ + 1]
    /\ sessions' = {s \in sessions : s.account # a}

\* Disabling and deleting revoke the account's sessions in the same transaction.
setUserStatus(a) ==
    /\ accounts[a].status # "deleted"
    /\ \/ Blocked(a, "disabled")
       \/ /\ accounts' = [accounts EXCEPT ![a].status = "active"]
          /\ UNCHANGED sessions
    /\ UNCHANGED <<identity, invitation, openMode, otp, awaitsInvite, visitor>>

deleteUser(a) ==
    /\ accounts[a].status # "deleted"
    /\ Blocked(a, "deleted")
    /\ UNCHANGED <<identity, invitation, openMode, otp, awaitsInvite, visitor>>

AccessNext ==
    \/ \E v \in Visitors :
         \/ \E p \in People : requestOtp(v, p) \/ loginWithIdentity(v, p)
                              \/ \E i \in Invitations : completeOAuthInvitation(v, p, i)
         \/ SupersedeCodes(v) \/ InsertCode(v) \/ CodeDelivered(v)
         \/ SignUp(v) \/ issueSession(v) \/ RedeemRollsBack(v) \/ RedeemCommits(v)
    \/ \E p \in People : verifyOtp(p) \/ \E n \in 1 .. MaxOtpCodes : LoseCode(p, n)
    \/ \E s \in sessions : logout(s) \/ linkIdentity(s) \/ unlinkIdentity(s)
    \/ setRegistrationMode
    \/ \E i \in Invitations : \/ InvitationMoves(i, "none", "live")
                              \/ InvitationMoves(i, "live", "revoked")
                              \/ InvitationMoves(i, "live", "expired")
    \/ \E a \in Existing : setUserStatus(a) \/ deleteUser(a)

AccessSpec == AccessInit /\ [][AccessNext]_accessVars
-----------------------------------------------------------------------------
\* An invitation admits at most one account, and none once revoked or expired,
\* whichever of the two ways in redeems it and however requests overlap.
InvitationsHonoured ==
    \A i \in Invitations :
      /\ \A a, b \in invitation[i].admitted : a = b
      /\ invitation[i].admitted # {} <=> invitation[i].state = "consumed"
=============================================================================
