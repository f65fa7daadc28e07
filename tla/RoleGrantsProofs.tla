-------------------------- MODULE RoleGrantsProofs --------------------------
(***************************************************************************)
(* Proofs about RoleGrants, for any roles, collections, fields, actions    *)
(* and settings: the ACL in memory decides what the rows decide once a     *)
(* request is answered, and in between it allows nothing that neither the  *)
(* rows before nor the rows after do, but for what the strategies allow    *)
(* of resources that are not written to their end.                         *)
(***************************************************************************)
EXTENDS RoleGrants, TLAPS

-----------------------------------------------------------------------------
(* The invariant *)

\* rows, before or after a transaction: a resource has the fields of its
\* collection, so that each association it names is brought
RowsOK(all) ==
    /\ all.roles \subseteq Role
    /\ DOMAIN all.fields \subseteq Collection
    /\ \A c \in DOMAIN all.fields : all.fields[c] \subseteq Field
    /\ DOMAIN all.resources \subseteq all.roles \X DOMAIN all.fields
    /\ \A p \in DOMAIN all.resources :
          /\ all.resources[p] \in Resource
          /\ \A a \in DOMAIN all.resources[p].actions :
                all.resources[p].actions[a].fields \subseteq all.fields[p[2]]

AclOK ==
    \A r \in DOMAIN acl :
        /\ DOMAIN acl[r] \subseteq Name
        /\ \A n \in DOMAIN acl[r] :
              /\ DOMAIN acl[r][n] \subseteq Action
              /\ n[2] # Itself => DOMAIN acl[r][n] # {}

\* the resource that is being written was revoked, and is not to write again
IsWriting(p, L, placed) ==
    /\ writing = [role |-> p[1], name |-> p[2], left |-> L, placed |-> placed]
    /\ resources[p].using
    /\ placed => L # {}

WritingOK ==
    \/ writing = None
    \/ \E p \in Configured \ todo : \E L \in SUBSET DOMAIN resources[p].actions :
          \E placed \in BOOLEAN : IsWriting(p, L, placed)

\* it is not in the ACL again
Unplaced(r, c) ==
    /\ writing # None
    /\ writing.role = r
    /\ writing.name = c
    /\ ~ writing.placed

\* the action a of the resource c of r is still to grant
Left(r, c, a) ==
    /\ writing # None
    /\ writing.role = r
    /\ writing.name = c
    /\ a \in writing.left

\* What the ACL grants: the rows say it, or those before of a resource that is
\* still to write.
Sound ==
    \A r \in DOMAIN acl : \A n \in DOMAIN acl[r] : \A a \in DOMAIN acl[r][n] :
        /\ <<r, n[1]>> \in todo => Fits(before, r, n, a)
        /\ <<r, n[1]>> \notin todo => Fits(rows, r, n, a)
        /\ <<r, n[1]>> \notin todo \cup outdated /\ n[2] = Itself =>
              acl[r][n][a] = Params(resources[<<r, n[1]>>].actions[a])

\* and it grants what the rows say, of the resources that are written
Complete ==
    \A r \in roles, n \in Name : <<r, n[1]>> \notin todo =>
        /\ n[2] = Itself =>
             (n \in DOMAIN acl[r] <=> /\ <<r, n[1]>> \in Configured
                                      /\ resources[<<r, n[1]>>].using
                                      /\ ~ Unplaced(r, n[1]))
        /\ \A a \in Action : Says(rows, r, n, a) /\ ~ Exposed(n) =>
              (n \in DOMAIN acl[r] /\ a \in DOMAIN acl[r][n]) \/ Left(r, n[1], a)

GrantInv ==
    /\ RowsOK(rows)
    /\ RowsOK(before)
    /\ filter \in [Scope -> 1..(MaxEdits + 1)]
    /\ todo \subseteq Configured
    /\ WritingOK
    /\ AclOK
    /\ failed \in BOOLEAN
    /\ failed => todo = {} /\ writing = None
    /\ ~ failed => DOMAIN acl = roles /\ Sound /\ Complete

LEMMA AclEntry ==
    ASSUME AclOK, NEW r \in DOMAIN acl, NEW n \in DOMAIN acl[r]
    PROVE  /\ n \in Name
           /\ DOMAIN acl[r][n] \subseteq Action
           /\ n[2] # Itself => DOMAIN acl[r][n] # {}
BY DEF AclOK

LEMMA GrantInvTypes == GrantInv => TypeOK
<1> SUFFICES ASSUME GrantInv PROVE TypeOK
  OBVIOUS
<1>1. /\ \A r \in DOMAIN acl : DOMAIN acl[r] \subseteq Name
      /\ \A r \in DOMAIN acl, n \in Name : n \in DOMAIN acl[r] => DOMAIN acl[r][n] \subseteq Action
  BY AclEntry DEF GrantInv
<1> QED
  BY <1>1 DEF GrantInv, TypeOK, RowsOK, rows, Configured

LEMMA GrantInvAgrees == GrantInv => GrantsAgree
<1> SUFFICES ASSUME GrantInv, Idle, ~ failed, NEW r \in roles, NEW n \in Name
             PROVE  /\ n \in DOMAIN acl[r] => Present(rows, r, n)
                    /\ \A a \in Action :
                         LET granted == n \in DOMAIN acl[r] /\ a \in DOMAIN acl[r][n]
                         IN /\ ~ Exposed(n) => (Allowed(r, n, a) <=> Decides(rows, r, n, a))
                            /\ granted => Says(rows, r, n, a)
                            /\ granted /\ n[2] = Itself /\ <<r, n[1]>> \notin outdated =>
                                  acl[r][n][a] = Params(resources[<<r, n[1]>>].actions[a])
  BY DEF GrantsAgree
<1>1. todo = {} /\ writing = None /\ Sound /\ Complete /\ DOMAIN acl = roles
  BY DEF GrantInv, Idle, Written
<1>2. ASSUME NEW a \in Action, n \in DOMAIN acl[r], a \in DOMAIN acl[r][n]
      PROVE  /\ Says(rows, r, n, a)
             /\ n[2] = Itself /\ <<r, n[1]>> \notin outdated =>
                   acl[r][n][a] = Params(resources[<<r, n[1]>>].actions[a])
  BY <1>1, <1>2 DEF Sound, Fits
<1>3. \A a \in Action : Says(rows, r, n, a) /\ ~ Exposed(n) =>
          n \in DOMAIN acl[r] /\ a \in DOMAIN acl[r][n]
  BY <1>1 DEF Complete, Left
<1>4. n[2] = Itself => (n \in DOMAIN acl[r] <=> /\ <<r, n[1]>> \in Configured
                                                /\ resources[<<r, n[1]>>].using)
  BY <1>1 DEF Complete, Unplaced
<1>5. ASSUME n \in DOMAIN acl[r] PROVE Present(rows, r, n)
  <2>1. CASE n[2] = Itself
    BY <1>4, <1>5, <2>1 DEF Present, rows, Configured
  <2>2. CASE n[2] # Itself
    <3>1. PICK a \in Action : a \in DOMAIN acl[r][n]
      <4>1. DOMAIN acl[r][n] # {} /\ DOMAIN acl[r][n] \subseteq Action
        BY <1>1, <1>5, <2>2, AclEntry DEF GrantInv
      <4> QED
        BY <4>1
    <3>2. Says(rows, r, n, a)
      BY <1>2, <1>5, <3>1
    <3> QED
      BY <3>2 DEF Present, Says
  <2> QED
    BY <2>1, <2>2
<1>6. ASSUME Present(rows, r, n), ~ Exposed(n) PROVE n \in DOMAIN acl[r]
  BY <1>3, <1>4, <1>6 DEF Present, rows, Configured
<1> QED
  BY <1>2, <1>3, <1>5, <1>6 DEF Allowed, Decides

LEMMA GrantInvNothingExtra == GrantInv => NothingExtra
<1> SUFFICES ASSUME GrantInv, ~ failed, NEW r \in DOMAIN acl, NEW n \in Name, NEW a \in Action,
                    Allowed(r, n, a)
             PROVE  \/ Lets(before, r, n, a)
                    \/ Lets(rows, r, n, a)
                    \/ /\ n \notin DOMAIN acl[r]
                       /\ a \in Strategy[r]
                       /\ Exposed(n) \/ Unwritten(r, n[1])
  BY DEF NothingExtra
<1>1. Sound /\ Complete /\ r \in roles
  BY DEF GrantInv
<1>2. CASE n \in DOMAIN acl[r]
  BY <1>1, <1>2 DEF Sound, Allowed, Lets
<1>3. CASE n \notin DOMAIN acl[r] /\ ~ Exposed(n) /\ ~ Unwritten(r, n[1])
  <2>1. <<r, n[1]>> \notin todo /\ ~ Unplaced(r, n[1]) /\ \A b : ~ Left(r, n[1], b)
    BY <1>3 DEF Unwritten, Unplaced, Left
  <2>2. /\ n[2] = Itself => ~ (<<r, n[1]>> \in Configured /\ resources[<<r, n[1]>>].using)
        /\ \A b \in Action : ~ Says(rows, r, n, b)
    BY <1>1, <1>3, <2>1 DEF Complete
  <2>3. ~ Present(rows, r, n)
    BY <2>2 DEF Present, rows, Configured
  <2> QED
    BY <1>3, <2>3 DEF Lets, Allowed
<1> QED
  BY <1>2, <1>3 DEF Allowed

-----------------------------------------------------------------------------
(* The helpers *)

\* a revoked resource is gone with its associations; of the others, only
\* associations whose collection ends with its name
LEMMA RevokedSpec ==
    ASSUME NEW R, NEW c \in Collection
    PROVE  /\ DOMAIN Revoked(R, c) \subseteq DOMAIN R
           /\ \A n \in DOMAIN Revoked(R, c) : n[1] # c /\ Revoked(R, c)[n] = R[n]
           /\ \A n \in DOMAIN R : n[1] # c => n \in DOMAIN Revoked(R, c) \/ Exposed(n)
BY DEF Revoked, Without, Exposed

\* the type of a resource, without its union
LEMMA ResourceSpec ==
    ASSUME NEW s
    PROVE  s \in Resource <=>
             \E u \in BOOLEAN, A \in SUBSET Action :
                \E f \in [A -> [fields : SUBSET Field, scope : Scope \cup {NoScope}]] :
                    s = [using |-> u, actions |-> f]
BY DEF Resource

-----------------------------------------------------------------------------
(* The requests *)

LEMMA Answered ==
    ASSUME GrantInv, Idle, ~ failed
    PROVE  /\ todo = {} /\ writing = None /\ before = rows
           /\ DOMAIN acl = roles
           /\ Sound /\ Complete
BY DEF GrantInv, Idle, Written

\* nothing is granted of what is not configured
LEMMA Unconfigured ==
    ASSUME GrantInv, Idle, ~ failed,
           NEW r \in roles, NEW n \in DOMAIN acl[r], <<r, n[1]>> \notin Configured
    PROVE  n[2] # Itself /\ DOMAIN acl[r][n] = {}
<1>1. todo = {} /\ DOMAIN acl = roles /\ Sound /\ Complete
  BY Answered
<1>2. n \in Name
  BY <1>1 DEF GrantInv, AclOK
<1>3. n[2] # Itself
  BY <1>1, <1>2 DEF Complete
<1>4. ASSUME NEW a \in DOMAIN acl[r][n] PROVE FALSE
  BY <1>1 DEF Sound, Fits, Says, rows, Configured
<1> QED
  BY <1>3, <1>4

\* A request writes the resources it lists, takes others away with what they
\* grant, and leaves the rest.
LEMMA BeginKeeps ==
    ASSUME GrantInv, NEW R, NEW F, NEW S, NEW pairs, Begin(R, F, S, pairs),
           RowsOK(rows)', pairs \subseteq DOMAIN S, DOMAIN acl' = R,
           \A r \in R : \A n \in DOMAIN acl'[r] :
               r \in roles /\ n \in DOMAIN acl[r] /\ acl'[r][n] = acl[r][n],
           \A r \in R, n \in Name : <<r, n[1]>> \notin pairs =>
               \/ /\ <<r, n[1]>> \notin DOMAIN S
                  /\ n \in DOMAIN acl'[r] => n[2] # Itself /\ DOMAIN acl'[r][n] = {}
               \/ /\ r \in roles
                  /\ <<r, n[1]>> \in DOMAIN S \cap Configured
                  /\ S[<<r, n[1]>>] = resources[<<r, n[1]>>]
                  /\ n \in DOMAIN acl[r] => n \in DOMAIN acl'[r] \/ Exposed(n)
    PROVE  GrantInv'
<1>1. /\ Idle /\ ~ failed
      /\ roles' = R /\ fields' = F /\ resources' = S /\ todo' = pairs
      /\ UNCHANGED <<filter, before, writing, outdated, failed>>
  BY DEF Begin
<1>2. /\ todo = {} /\ writing = None /\ before = rows /\ DOMAIN acl = roles
      /\ Sound /\ Complete
  BY <1>1, Answered
<1>3. AclOK'
  BY <1>1, <1>2 DEF GrantInv, AclOK
<1>4. \A r \in R : \A n \in DOMAIN acl'[r] : n \in Name
  BY <1>2 DEF GrantInv, AclOK
<1>5. ASSUME NEW r \in R, NEW n \in DOMAIN acl'[r], NEW a \in DOMAIN acl'[r][n]
      PROVE  /\ <<r, n[1]>> \in todo' => Fits(before, r, n, a)'
             /\ <<r, n[1]>> \notin todo' => Fits(rows, r, n, a)'
             /\ <<r, n[1]>> \notin todo' \cup outdated' /\ n[2] = Itself =>
                   acl'[r][n][a] = Params(resources[<<r, n[1]>>].actions[a])'
  <2>1. /\ r \in DOMAIN acl /\ n \in DOMAIN acl[r] /\ acl'[r][n] = acl[r][n]
        /\ n \in Name
    BY <1>2, <1>4
  <2>2. /\ Fits(rows, r, n, a)
        /\ <<r, n[1]>> \notin outdated /\ n[2] = Itself =>
              acl[r][n][a] = Params(resources[<<r, n[1]>>].actions[a])
    BY <1>2, <2>1 DEF Sound
  <2>3. CASE <<r, n[1]>> \in pairs
    <3>1. Fits(before, r, n, a)'
      BY <1>1, <1>2, <2>1, <2>2 DEF Fits, Says
    <3> QED
      BY <1>1, <2>3, <3>1
  <2>4. CASE <<r, n[1]>> \notin pairs
    <3>1. /\ <<r, n[1]>> \in DOMAIN S
          /\ S[<<r, n[1]>>] = resources[<<r, n[1]>>]
      BY <2>1, <2>4
    <3>2. Fits(rows, r, n, a)'
      BY <1>1, <2>1, <2>2, <3>1 DEF Fits, Says, rows
    <3> QED
      BY <1>1, <2>1, <2>2, <2>4, <3>1, <3>2 DEF Params, FilterOf
  <2> QED
    BY <2>3, <2>4
<1>6. Sound'
  BY <1>5 DEF Sound
<1>7. ASSUME NEW r \in R, NEW n \in Name, <<r, n[1]>> \notin pairs
      PROVE  /\ n[2] = Itself =>
                   (n \in DOMAIN acl'[r] <=> <<r, n[1]>> \in DOMAIN S /\ S[<<r, n[1]>>].using)
             /\ \A a \in Action : Says(rows, r, n, a)' /\ ~ Exposed(n) =>
                   n \in DOMAIN acl'[r] /\ a \in DOMAIN acl'[r][n]
  <2>1. CASE <<r, n[1]>> \notin DOMAIN S
    BY <1>1, <1>7, <2>1 DEF Says, rows
  <2>2. CASE /\ r \in roles
             /\ <<r, n[1]>> \in DOMAIN S \cap Configured
             /\ S[<<r, n[1]>>] = resources[<<r, n[1]>>]
             /\ n \in DOMAIN acl[r] => n \in DOMAIN acl'[r] \/ Exposed(n)
    <3>1. /\ n[2] = Itself => (n \in DOMAIN acl[r] <=> resources[<<r, n[1]>>].using)
          /\ \A a \in Action : Says(rows, r, n, a) /\ ~ Exposed(n) =>
                n \in DOMAIN acl[r] /\ a \in DOMAIN acl[r][n]
      BY <1>2, <2>2 DEF Complete, Left, Unplaced
    <3>2. n[2] = Itself => ~ Exposed(n)
      BY DEF Exposed
    <3>3. \A a \in Action : Says(rows, r, n, a)' = Says(rows, r, n, a)
      BY <1>1, <2>2 DEF Says, rows, Configured
    <3> QED
      BY <2>2, <3>1, <3>2, <3>3
  <2> QED
    BY <1>7, <2>1, <2>2
<1>8. Complete'
  BY <1>1, <1>2, <1>7 DEF Complete, Configured, Exposed, Unplaced
<1>9. RowsOK(before)'
  BY <1>1 DEF GrantInv, RowsOK
<1> QED
  BY <1>1, <1>2, <1>3, <1>6, <1>8, <1>9 DEF GrantInv, WritingOK, Configured

LEMMA SaveRoleKeeps == ASSUME GrantInv, NEW r \in Role, SaveRole(r) PROVE GrantInv'
<1>1. /\ Begin(roles \cup {r}, fields, resources, Of(r))
      /\ acl' = IF r \in DOMAIN acl THEN acl ELSE With(acl, r, None)
  BY DEF SaveRole
<1>2. Idle /\ ~ failed /\ DOMAIN acl = roles
  BY <1>1, Answered DEF Begin
<1>3. /\ DOMAIN acl' = roles \cup {r}
      /\ \A q \in roles : acl'[q] = acl[q]
      /\ r \notin roles => acl'[r] = None
  BY <1>1, <1>2 DEF With
<1>4. RowsOK(rows)'
  BY <1>1 DEF Begin, GrantInv, RowsOK, rows
<1>5. Of(r) \subseteq DOMAIN resources
  BY DEF Of, Configured
<1>6. ASSUME NEW q \in roles \cup {r}, NEW n \in Name, <<q, n[1]>> \notin Of(r)
      PROVE  \/ /\ <<q, n[1]>> \notin DOMAIN resources
                /\ n \in DOMAIN acl'[q] => n[2] # Itself /\ DOMAIN acl'[q][n] = {}
             \/ /\ q \in roles
                /\ <<q, n[1]>> \in DOMAIN resources \cap Configured
                /\ resources[<<q, n[1]>>] = resources[<<q, n[1]>>]
                /\ n \in DOMAIN acl[q] => n \in DOMAIN acl'[q] \/ Exposed(n)
  <2>1. CASE <<q, n[1]>> \in Configured
    <3>1. q \in roles
      BY <2>1 DEF GrantInv, RowsOK, rows, Configured
    <3> QED
      BY <1>3, <2>1, <3>1 DEF Configured
  <2>2. CASE <<q, n[1]>> \notin Configured
    <3>1. CASE q \in roles
      BY <1>2, <1>3, <2>2, <3>1, Unconfigured DEF Configured
    <3>2. CASE q \notin roles
      BY <1>3, <2>2, <3>2 DEF Configured, None
    <3> QED
      BY <3>1, <3>2
  <2> QED
    BY <2>1, <2>2
<1>7. \A q \in roles \cup {r} : \A n \in DOMAIN acl'[q] :
          q \in roles /\ n \in DOMAIN acl[q] /\ acl'[q][n] = acl[q][n]
  BY <1>3 DEF None
<1> QED
  BY <1>1, <1>3, <1>4, <1>5, <1>6, <1>7, BeginKeeps

LEMMA DestroyRoleKeeps == ASSUME GrantInv, NEW r \in Role, DestroyRole(r) PROVE GrantInv'
<1> DEFINE S == Without(resources, Of(r))
          R == roles \ {r}
<1>1. /\ r \in roles
      /\ Begin(R, fields, S, {})
      /\ acl' = Without(acl, {r})
  BY DEF DestroyRole
<1>2. Idle /\ ~ failed /\ DOMAIN acl = roles
  BY <1>1, Answered DEF Begin
<1>3. DOMAIN acl' = R /\ \A q \in R : acl'[q] = acl[q]
  BY <1>1, <1>2 DEF Without
<1>4. /\ DOMAIN S = {p \in Configured : p[1] # r}
      /\ \A p \in DOMAIN S : S[p] = resources[p]
  BY DEF Without, Of, Configured
<1> HIDE DEF S
<1>5. RowsOK(rows)'
  <2>1. roles' = R /\ fields' = fields /\ resources' = S
    BY <1>1 DEF Begin
  <2>2. \A p \in Configured : p \in roles \X DOMAIN fields
    BY DEF GrantInv, RowsOK, rows, Configured
  <2>3. DOMAIN S \subseteq R \X DOMAIN fields
    BY <1>4, <2>2
  <2> QED
    BY <1>4, <2>1, <2>3 DEF GrantInv, RowsOK, rows, Configured
<1>6. ASSUME NEW q \in R, NEW n \in Name
      PROVE  \/ /\ <<q, n[1]>> \notin DOMAIN S
                /\ n \in DOMAIN acl'[q] => n[2] # Itself /\ DOMAIN acl'[q][n] = {}
             \/ /\ q \in roles
                /\ <<q, n[1]>> \in DOMAIN S \cap Configured
                /\ S[<<q, n[1]>>] = resources[<<q, n[1]>>]
                /\ n \in DOMAIN acl[q] => n \in DOMAIN acl'[q] \/ Exposed(n)
  <2>1. q \in roles /\ acl'[q] = acl[q]
    BY <1>3
  <2>2. CASE <<q, n[1]>> \in Configured
    BY <1>4, <2>1, <2>2
  <2>3. CASE <<q, n[1]>> \notin Configured
    BY <1>2, <1>4, <2>1, <2>3, Unconfigured
  <2> QED
    BY <2>2, <2>3
<1>7. \A q \in R : \A n \in DOMAIN acl'[q] :
          q \in roles /\ n \in DOMAIN acl[q] /\ acl'[q][n] = acl[q][n]
  BY <1>3
<1>8. Begin(R, fields, S, {}) /\ DOMAIN acl' = R
  BY <1>1, <1>3
<1> HIDE DEF R
<1> QED
  BY <1>5, <1>6, <1>7, <1>8, BeginKeeps

LEMMA SaveResourceKeeps ==
    ASSUME GrantInv, NEW r \in Role, NEW c \in Collection, NEW setting \in Settings,
           SaveResource(r, c, setting)
    PROVE  GrantInv'
<1> DEFINE S == With(resources, <<r, c>>, setting)
<1>1. /\ r \in roles /\ c \in DOMAIN fields
      /\ \A a \in DOMAIN setting.actions : setting.actions[a].fields \subseteq fields[c]
      /\ Begin(roles, fields, S, {<<r, c>>})
      /\ acl' = acl
  BY DEF SaveResource
<1>2. Idle /\ ~ failed /\ DOMAIN acl = roles
  BY <1>1, Answered DEF Begin
<1>3. /\ DOMAIN S = Configured \cup {<<r, c>>}
      /\ S[<<r, c>>] = setting
      /\ \A p \in Configured : p # <<r, c>> => S[p] = resources[p]
  BY DEF With, Configured
<1> HIDE DEF S
<1>4. RowsOK(rows)'
  <2>1. roles' = roles /\ fields' = fields /\ resources' = S
    BY <1>1 DEF Begin
  <2>2. \A p \in DOMAIN S :
           /\ p \in roles \X DOMAIN fields
           /\ S[p] \in Resource
           /\ \A a \in DOMAIN S[p].actions : S[p].actions[a].fields \subseteq fields[p[2]]
    BY <1>1, <1>3, SettingsAssumption DEF GrantInv, RowsOK, rows, Configured
  <2> QED
    BY <2>1, <2>2 DEF GrantInv, RowsOK, rows
<1>5. ASSUME NEW q \in roles, NEW n \in Name, <<q, n[1]>> \notin {<<r, c>>}
      PROVE  \/ /\ <<q, n[1]>> \notin DOMAIN S
                /\ n \in DOMAIN acl'[q] => n[2] # Itself /\ DOMAIN acl'[q][n] = {}
             \/ /\ q \in roles
                /\ <<q, n[1]>> \in DOMAIN S \cap Configured
                /\ S[<<q, n[1]>>] = resources[<<q, n[1]>>]
                /\ n \in DOMAIN acl[q] => n \in DOMAIN acl'[q] \/ Exposed(n)
  BY <1>1, <1>2, <1>3, <1>5, Unconfigured
<1>6. {<<r, c>>} \subseteq DOMAIN S
  BY <1>3
<1> QED
  BY <1>1, <1>2, <1>4, <1>5, <1>6, BeginKeeps

LEMMA DestroyResourceKeeps ==
    ASSUME GrantInv, NEW r \in Role, NEW c \in Collection, DestroyResource(r, c)
    PROVE  GrantInv'
<1> DEFINE S == Without(resources, {<<r, c>>})
<1>1. /\ <<r, c>> \in Configured
      /\ Begin(roles, fields, S, {})
      /\ acl' = [acl EXCEPT ![r] = Revoked(@, c)]
  BY DEF DestroyResource
<1>2. Idle /\ ~ failed /\ DOMAIN acl = roles
  BY <1>1, Answered DEF Begin
<1>3. /\ DOMAIN S = Configured \ {<<r, c>>}
      /\ \A p \in DOMAIN S : S[p] = resources[p]
  BY DEF Without, Configured
<1> HIDE DEF S
<1>4. r \in roles
  BY <1>1 DEF GrantInv, RowsOK, rows, Configured
<1>5. /\ DOMAIN acl' = roles
      /\ \A q \in roles : q # r => acl'[q] = acl[q]
      /\ acl'[r] = Revoked(acl[r], c)
  BY <1>1, <1>2, <1>4
<1>6. /\ DOMAIN acl'[r] \subseteq DOMAIN acl[r]
      /\ \A n \in DOMAIN acl'[r] : n[1] # c /\ acl'[r][n] = acl[r][n]
      /\ \A n \in DOMAIN acl[r] : n[1] # c => n \in DOMAIN acl'[r] \/ Exposed(n)
  BY <1>5, RevokedSpec
<1>7. RowsOK(rows)'
  <2>1. roles' = roles /\ fields' = fields /\ resources' = S
    BY <1>1 DEF Begin
  <2> QED
    BY <1>3, <2>1 DEF GrantInv, RowsOK, rows, Configured
<1>8. ASSUME NEW q \in roles, NEW n \in Name
      PROVE  \/ /\ <<q, n[1]>> \notin DOMAIN S
                /\ n \in DOMAIN acl'[q] => n[2] # Itself /\ DOMAIN acl'[q][n] = {}
             \/ /\ q \in roles
                /\ <<q, n[1]>> \in DOMAIN S \cap Configured
                /\ S[<<q, n[1]>>] = resources[<<q, n[1]>>]
                /\ n \in DOMAIN acl[q] => n \in DOMAIN acl'[q] \/ Exposed(n)
  <2>1. CASE <<q, n[1]>> = <<r, c>>
    BY <1>3, <1>6, <2>1
  <2>2. CASE <<q, n[1]>> # <<r, c>> /\ <<q, n[1]>> \in Configured
    BY <1>3, <1>5, <1>6, <2>2
  <2>3. CASE <<q, n[1]>> \notin Configured
    <3>1. n \in DOMAIN acl[q] => n[2] # Itself /\ DOMAIN acl[q][n] = {}
      BY <1>2, <2>3, Unconfigured
    <3> QED
      BY <1>3, <1>5, <1>6, <2>3, <3>1
  <2> QED
    BY <2>1, <2>2, <2>3
<1>9. \A q \in roles : \A n \in DOMAIN acl'[q] :
          q \in roles /\ n \in DOMAIN acl[q] /\ acl'[q][n] = acl[q][n]
  BY <1>5, <1>6
<1> QED
  BY <1>1, <1>5, <1>7, <1>8, <1>9, BeginKeeps

LEMMA CreateCollectionKeeps ==
    ASSUME GrantInv, NEW c \in Collection, CreateCollection(c)
    PROVE  GrantInv'
<1>1. /\ c \notin DOMAIN fields
      /\ Begin(roles, With(fields, c, {}), resources, {})
      /\ acl' = acl
  BY DEF CreateCollection
<1>2. Idle /\ ~ failed /\ DOMAIN acl = roles
  BY <1>1, Answered DEF Begin
<1>3. RowsOK(rows)'
  <2>1. roles' = roles /\ fields' = With(fields, c, {}) /\ resources' = resources
    BY <1>1 DEF Begin
  <2>2. /\ DOMAIN fields' = DOMAIN fields \cup {c}
        /\ fields'[c] = {}
        /\ \A d \in DOMAIN fields : fields'[d] = fields[d]
    BY <1>1, <2>1 DEF With
  <2>3. \A p \in DOMAIN resources : p \in roles \X DOMAIN fields
    BY DEF GrantInv, RowsOK, rows
  <2> QED
    BY <2>1, <2>2, <2>3 DEF GrantInv, RowsOK, rows
<1>4. ASSUME NEW q \in roles, NEW n \in Name
      PROVE  \/ /\ <<q, n[1]>> \notin DOMAIN resources
                /\ n \in DOMAIN acl'[q] => n[2] # Itself /\ DOMAIN acl'[q][n] = {}
             \/ /\ q \in roles
                /\ <<q, n[1]>> \in DOMAIN resources \cap Configured
                /\ resources[<<q, n[1]>>] = resources[<<q, n[1]>>]
                /\ n \in DOMAIN acl[q] => n \in DOMAIN acl'[q] \/ Exposed(n)
  BY <1>1, <1>2, Unconfigured DEF Configured
<1> QED
  BY <1>1, <1>2, <1>3, <1>4, BeginKeeps

LEMMA DestroyCollectionKeeps ==
    ASSUME GrantInv, NEW c \in Collection, DestroyCollection(c)
    PROVE  GrantInv'
<1> DEFINE S == Without(resources, For(c))
<1>1. /\ c \in DOMAIN fields
      /\ Begin(roles, Without(fields, {c}), S, {})
      /\ acl' = [r \in DOMAIN acl |->
                    IF <<r, c>> \in Configured THEN Revoked(acl[r], c) ELSE acl[r]]
  BY DEF DestroyCollection
<1>2. Idle /\ ~ failed /\ DOMAIN acl = roles
  BY <1>1, Answered DEF Begin
<1>3. /\ DOMAIN S = {p \in Configured : p[2] # c}
      /\ \A p \in DOMAIN S : S[p] = resources[p]
  BY DEF Without, For, Configured
<1> HIDE DEF S
<1>4. DOMAIN acl' = roles
  BY <1>1, <1>2
<1>5. ASSUME NEW q \in roles
      PROVE  /\ DOMAIN acl'[q] \subseteq DOMAIN acl[q]
             /\ \A n \in DOMAIN acl'[q] : acl'[q][n] = acl[q][n]
             /\ \A n \in DOMAIN acl[q] : n[1] # c => n \in DOMAIN acl'[q] \/ Exposed(n)
             /\ <<q, c>> \in Configured => \A n \in DOMAIN acl'[q] : n[1] # c
  <2>1. CASE <<q, c>> \in Configured
    <3>1. acl'[q] = Revoked(acl[q], c)
      BY <1>1, <1>2, <2>1
    <3> QED
      BY <3>1, RevokedSpec
  <2>2. CASE <<q, c>> \notin Configured
    BY <1>1, <1>2, <2>2
  <2> QED
    BY <2>1, <2>2
<1>7. RowsOK(rows)'
  <2>1. roles' = roles /\ fields' = Without(fields, {c}) /\ resources' = S
    BY <1>1 DEF Begin
  <2>2. /\ DOMAIN fields' = DOMAIN fields \ {c}
        /\ \A d \in DOMAIN fields' : fields'[d] = fields[d]
    BY <2>1 DEF Without
  <2>3. \A p \in DOMAIN S : p \in roles \X DOMAIN fields /\ p[2] # c
    BY <1>3 DEF GrantInv, RowsOK, rows, Configured
  <2>4. \A p \in DOMAIN S : p \in roles \X DOMAIN fields'
    BY <2>2, <2>3
  <2>5. /\ roles \subseteq Role
        /\ DOMAIN fields \subseteq Collection
        /\ \A d \in DOMAIN fields : fields[d] \subseteq Field
        /\ \A p \in Configured :
              /\ resources[p] \in Resource
              /\ \A a \in DOMAIN resources[p].actions :
                    resources[p].actions[a].fields \subseteq fields[p[2]]
    BY DEF GrantInv, RowsOK, rows, Configured
  <2>6. \A p \in DOMAIN S : p \in Configured /\ S[p] = resources[p] /\ fields'[p[2]] = fields[p[2]]
    BY <1>3, <2>2, <2>3
  <2> QED
    BY <2>1, <2>2, <2>4, <2>5, <2>6 DEF RowsOK, rows
<1>8. ASSUME NEW q \in roles, NEW n \in Name
      PROVE  \/ /\ <<q, n[1]>> \notin DOMAIN S
                /\ n \in DOMAIN acl'[q] => n[2] # Itself /\ DOMAIN acl'[q][n] = {}
             \/ /\ q \in roles
                /\ <<q, n[1]>> \in DOMAIN S \cap Configured
                /\ S[<<q, n[1]>>] = resources[<<q, n[1]>>]
                /\ n \in DOMAIN acl[q] => n \in DOMAIN acl'[q] \/ Exposed(n)
  <2>1. CASE <<q, n[1]>> \in Configured /\ n[1] = c
    BY <1>3, <1>5, <2>1
  <2>2. CASE <<q, n[1]>> \in Configured /\ n[1] # c
    BY <1>3, <1>5, <2>2
  <2>3. CASE <<q, n[1]>> \notin Configured
    <3>1. n \in DOMAIN acl[q] => n[2] # Itself /\ DOMAIN acl[q][n] = {}
      BY <1>2, <2>3, Unconfigured
    <3> QED
      BY <1>3, <1>5, <2>3, <3>1
  <2> QED
    BY <2>1, <2>2, <2>3
<1>9. \A q \in roles : \A n \in DOMAIN acl'[q] :
          q \in roles /\ n \in DOMAIN acl[q] /\ acl'[q][n] = acl[q][n]
  BY <1>5
<1> QED
  BY <1>1, <1>4, <1>7, <1>8, <1>9, BeginKeeps

\* A field that is made or destroyed changes the fields of the actions of its
\* collection only.
LEMMA ConfiguringSpec ==
    ASSUME GrantInv, NEW c \in Collection, NEW change \in [SUBSET Field -> SUBSET Field],
           NEW p \in Configured
    PROVE  LET new == Configuring(c, change)[p]
           IN /\ p[2] # c => new = resources[p]
              /\ new \in Resource
              /\ DOMAIN new.actions = DOMAIN resources[p].actions
              /\ p[2] = c => \A a \in DOMAIN new.actions :
                    new.actions[a].fields = change[resources[p].actions[a].fields]
              /\ (\A a \in DOMAIN resources[p].actions :
                     change[resources[p].actions[a].fields] = resources[p].actions[a].fields)
                 => new = resources[p]
<1> DEFINE new == Configuring(c, change)[p]
           config == [fields : SUBSET Field, scope : Scope \cup {NoScope}]
<1>1. resources[p] \in Resource
  BY DEF GrantInv, RowsOK, rows, Configured
<1>2. PICK u \in BOOLEAN, A \in SUBSET Action : \E f \in [A -> config] :
          resources[p] = [using |-> u, actions |-> f]
  BY <1>1, ResourceSpec
<1>3. PICK f \in [A -> config] : resources[p] = [using |-> u, actions |-> f]
  BY <1>2
<1>4. CASE p[2] # c
  <2>1. new = resources[p]
    BY <1>4 DEF Configuring
  <2> QED
    BY <1>1, <1>4, <2>1
<1>5. CASE p[2] = c
  <2> DEFINE g == [a \in A |-> [f[a] EXCEPT !.fields = change[f[a].fields]]]
  <2>1. new = [using |-> u, actions |-> g]
    BY <1>3, <1>5 DEF Configuring
  <2>2. ASSUME NEW a \in A
        PROVE  /\ f[a] \in config
               /\ g[a] = [f[a] EXCEPT !.fields = change[f[a].fields]]
               /\ g[a].fields = change[f[a].fields]
               /\ g[a] \in config
               /\ change[f[a].fields] = f[a].fields => g[a] = f[a]
    <3>1. f[a] \in config /\ change[f[a].fields] \in SUBSET Field
      OBVIOUS
    <3>2. g[a] = [f[a] EXCEPT !.fields = change[f[a].fields]]
      OBVIOUS
    <3> HIDE DEF g
    <3> QED
      BY <3>1, <3>2
  <2>3. g \in [A -> config]
    BY <2>2
  <2>4. new \in Resource
    BY <2>1, <2>3, ResourceSpec
  <2>5. (\A a \in A : change[f[a].fields] = f[a].fields) => g = f
    BY <2>2
  <2> HIDE DEF g
  <2>6. DOMAIN g = A /\ DOMAIN f = A
    BY <2>3
  <2>7. /\ new.actions = g /\ resources[p].actions = f
        /\ g = f => new = resources[p]
    BY <1>3, <2>1
  <2> HIDE DEF new
  <2> QED
    BY <1>5, <2>2, <2>4, <2>5, <2>6, <2>7 DEF new
<1> QED
  BY <1>4, <1>5

\* the resources of c that are not written again keep their fields
OthersStay(c, change, pairs) ==
    \A p \in For(c) \ pairs : \A a \in DOMAIN resources[p].actions :
        change[resources[p].actions[a].fields] = resources[p].actions[a].fields

\* What the two requests have in common.
LEMMA FieldKeeps ==
    ASSUME GrantInv, Idle, ~ failed, NEW c \in DOMAIN fields,
           NEW change \in [SUBSET Field -> SUBSET Field], NEW after \in SUBSET Field,
           \A X \in SUBSET fields[c] : change[X] \subseteq after,
           NEW pairs \in SUBSET Configured,
           OthersStay(c, change, pairs),
           Begin(roles, [fields EXCEPT ![c] = after], Configuring(c, change), pairs),
           UNCHANGED acl
    PROVE  GrantInv'
<1> DEFINE S == Configuring(c, change)
           F == [fields EXCEPT ![c] = after]
<1>1. DOMAIN acl = roles
  BY Answered
<1>2. c \in Collection
  BY DEF GrantInv, RowsOK, rows
<1>3. DOMAIN S = Configured
  BY DEF Configuring
<1>4. ASSUME NEW p \in Configured
      PROVE  /\ p[2] # c => S[p] = resources[p]
             /\ S[p] \in Resource
             /\ DOMAIN S[p].actions = DOMAIN resources[p].actions
             /\ p[2] = c => \A a \in DOMAIN S[p].actions :
                   S[p].actions[a].fields = change[resources[p].actions[a].fields]
             /\ (\A a \in DOMAIN resources[p].actions :
                    change[resources[p].actions[a].fields] = resources[p].actions[a].fields)
                => S[p] = resources[p]
  BY <1>2, ConfiguringSpec
<1>5. /\ DOMAIN F = DOMAIN fields /\ F[c] = after
      /\ \A d \in DOMAIN fields : d # c => F[d] = fields[d]
  OBVIOUS
<1> HIDE DEF S, F
<1>6. roles' = roles /\ fields' = F /\ resources' = S
  BY DEF Begin, S, F
<1>7. ASSUME NEW p \in Configured
      PROVE  /\ p \in roles \X DOMAIN F
             /\ S[p] \in Resource
             /\ \A a \in DOMAIN S[p].actions : S[p].actions[a].fields \subseteq F[p[2]]
  <2>1. /\ p \in roles \X DOMAIN fields
        /\ \A a \in DOMAIN resources[p].actions :
              resources[p].actions[a].fields \in SUBSET fields[p[2]]
    BY DEF GrantInv, RowsOK, rows, Configured
  <2>2. CASE p[2] = c
    BY <1>4, <1>5, <2>1, <2>2
  <2>3. CASE p[2] # c
    BY <1>4, <1>5, <2>1, <2>3
  <2> QED
    BY <2>2, <2>3
<1>8. RowsOK(rows)'
  <2>1. \A d \in DOMAIN F : F[d] \subseteq Field
    BY <1>5 DEF GrantInv, RowsOK, rows
  <2>2. roles \subseteq Role /\ DOMAIN F \subseteq Collection
    BY <1>5 DEF GrantInv, RowsOK, rows
  <2> QED
    BY <1>3, <1>6, <1>7, <2>1, <2>2 DEF RowsOK, rows
<1>9. ASSUME NEW q \in roles, NEW n \in Name, <<q, n[1]>> \notin pairs
      PROVE  \/ /\ <<q, n[1]>> \notin DOMAIN S
                /\ n \in DOMAIN acl'[q] => n[2] # Itself /\ DOMAIN acl'[q][n] = {}
             \/ /\ q \in roles
                /\ <<q, n[1]>> \in DOMAIN S \cap Configured
                /\ S[<<q, n[1]>>] = resources[<<q, n[1]>>]
                /\ n \in DOMAIN acl[q] => n \in DOMAIN acl'[q] \/ Exposed(n)
  <2>1. CASE <<q, n[1]>> \in Configured
    <3>1. S[<<q, n[1]>>] = resources[<<q, n[1]>>]
      BY <1>4, <1>9, <2>1 DEF For, OthersStay
    <3> QED
      BY <1>3, <2>1, <3>1
  <2>2. CASE <<q, n[1]>> \notin Configured
    BY <1>1, <1>3, <2>2, Unconfigured
  <2> QED
    BY <2>1, <2>2
<1>10. Begin(roles, F, S, pairs) /\ DOMAIN acl' = roles
  BY <1>1 DEF S, F
<1>11. \A q \in roles : \A n \in DOMAIN acl'[q] :
          q \in roles /\ n \in DOMAIN acl[q] /\ acl'[q][n] = acl[q][n]
  OBVIOUS
<1> QED
  BY <1>3, <1>8, <1>9, <1>10, <1>11, BeginKeeps

LEMMA CreateFieldKeeps ==
    ASSUME GrantInv, NEW c \in Collection, NEW f \in Field, CreateField(c, f)
    PROVE  GrantInv'
<1> DEFINE Add == [F \in SUBSET Field |-> F \cup {f}]
           pairs == {p \in For(c) : DOMAIN resources[p].actions # {}}
<1>1. /\ c \in DOMAIN fields
      /\ Begin(roles, [fields EXCEPT ![c] = fields[c] \cup {f}], Configuring(c, Add), pairs)
      /\ UNCHANGED acl
  BY DEF CreateField
<1>2. fields[c] \cup {f} \in SUBSET Field
  BY <1>1 DEF GrantInv, RowsOK, rows
<1>3. /\ Add \in [SUBSET Field -> SUBSET Field]
      /\ \A X \in SUBSET fields[c] : Add[X] \subseteq fields[c] \cup {f}
  BY <1>2
<1>4. pairs \in SUBSET Configured
  BY DEF For
<1>5. OthersStay(c, Add, pairs)
  BY DEF OthersStay
<1>6. Idle /\ ~ failed
  BY <1>1 DEF Begin
<1> HIDE DEF Add, pairs
<1> QED
  BY <1>1, <1>2, <1>3, <1>4, <1>5, <1>6, FieldKeeps

LEMMA DestroyFieldKeeps ==
    ASSUME GrantInv, NEW c \in Collection, NEW f \in Field, DestroyField(c, f)
    PROVE  GrantInv'
<1> DEFINE Drop == [F \in SUBSET Field |-> F \ {f}]
           pairs == {p \in For(c) : \E a \in DOMAIN resources[p].actions :
                                        f \in resources[p].actions[a].fields}
           after == fields[c] \ {f}
<1>1. /\ c \in DOMAIN fields
      /\ Begin(roles, [fields EXCEPT ![c] = after], Configuring(c, Drop), pairs)
      /\ UNCHANGED acl
  BY DEF DestroyField
<1>2. fields[c] \subseteq Field /\ after \in SUBSET Field
  BY <1>1 DEF GrantInv, RowsOK, rows
<1>3. /\ Drop \in [SUBSET Field -> SUBSET Field]
      /\ \A X \in SUBSET fields[c] : Drop[X] \subseteq after
  BY <1>2
<1>4. pairs \in SUBSET Configured
  BY DEF For
<1>5. ASSUME NEW p \in For(c) \ pairs, NEW a \in DOMAIN resources[p].actions
      PROVE  Drop[resources[p].actions[a].fields] = resources[p].actions[a].fields
  <2>1. resources[p].actions[a].fields \subseteq fields[p[2]] /\ p[2] = c
    BY DEF For, GrantInv, RowsOK, rows, Configured
  <2>2. f \notin resources[p].actions[a].fields
    OBVIOUS
  <2> QED
    BY <1>2, <2>1, <2>2
<1>6. Idle /\ ~ failed
  BY <1>1 DEF Begin
<1>7. OthersStay(c, Drop, pairs)
  BY <1>5 DEF OthersStay
<1>8. after \in SUBSET Field
  BY <1>2
<1> HIDE DEF Drop, pairs, after
<1> QED
  BY <1>1, <1>3, <1>4, <1>6, <1>7, <1>8, FieldKeeps

\* the resources with the scope are outdated, those without it have their filter
LEMMA EditScopeKeeps ==
    ASSUME GrantInv, NEW s \in Scope, EditScope(s)
    PROVE  GrantInv'
<1>1. /\ Idle /\ ~ failed /\ filter[s] <= MaxEdits
      /\ filter' = [filter EXCEPT ![s] = @ + 1]
      /\ outdated' = outdated \cup
                       {p \in Configured : \E a \in DOMAIN resources[p].actions :
                                               resources[p].actions[a].scope = s}
      /\ UNCHANGED <<roles, fields, resources, before, todo, writing, acl, failed>>
  BY DEF EditScope
<1>2. todo = {} /\ writing = None /\ DOMAIN acl = roles /\ Sound /\ Complete
  BY <1>1, Answered
<1>3. filter' \in [Scope -> 1..(MaxEdits + 1)]
  BY <1>1, ConstantsAssumption DEF GrantInv
<1>4. \A t \in Scope \ {s} : filter'[t] = filter[t]
  BY <1>1 DEF GrantInv
<1>5. ASSUME NEW r \in DOMAIN acl, NEW n \in DOMAIN acl[r], NEW a \in DOMAIN acl[r][n],
             <<r, n[1]>> \notin outdated', n[2] = Itself
      PROVE  acl[r][n][a] = Params(resources[<<r, n[1]>>].actions[a])'
  <2> DEFINE p == <<r, n[1]>>
             config == resources[p].actions[a]
  <2>1. /\ p \in Configured /\ a \in DOMAIN resources[p].actions
        /\ acl[r][n][a] = Params(config)
    BY <1>1, <1>2, <1>5 DEF Sound, Fits, Says, rows, Configured
  <2>2. config.scope # s
    BY <1>1, <1>5, <2>1
  <2>3. config.scope \in Scope \cup {NoScope}
    <3>1. resources[p] \in Resource
      BY <2>1 DEF GrantInv, RowsOK, rows, Configured
    <3>2. PICK u \in BOOLEAN, A \in SUBSET Action :
              \E f \in [A -> [fields : SUBSET Field, scope : Scope \cup {NoScope}]] :
                  resources[p] = [using |-> u, actions |-> f]
      BY <3>1, ResourceSpec
    <3> QED
      BY <2>1, <3>2
  <2>4. FilterOf(config.scope)' = FilterOf(config.scope)
    BY <1>1, <1>4, <2>2, <2>3 DEF FilterOf
  <2>5. Params(config)' = Params(config)
    BY <1>1, <2>4 DEF Params
  <2> QED
    BY <1>1, <2>1, <2>5
<1>6. Sound'
  <2>1. ASSUME NEW r \in DOMAIN acl', NEW n \in DOMAIN acl'[r], NEW a \in DOMAIN acl'[r][n]
        PROVE  /\ <<r, n[1]>> \notin todo'
               /\ Fits(rows, r, n, a)'
               /\ <<r, n[1]>> \notin outdated' /\ n[2] = Itself =>
                     acl'[r][n][a] = Params(resources[<<r, n[1]>>].actions[a])'
    <3>1. Fits(rows, r, n, a) /\ <<r, n[1]>> \notin todo
      BY <1>1, <1>2 DEF Sound
    <3>2. Fits(rows, r, n, a)' = Fits(rows, r, n, a)
      BY <1>1 DEF Fits, Says, rows
    <3> QED
      BY <1>1, <1>5, <3>1, <3>2
  <2> QED
    BY <2>1 DEF Sound
<1>7. Complete'
  <2>1. ASSUME NEW r \in roles, NEW n \in Name, <<r, n[1]>> \notin todo
        PROVE  /\ n[2] = Itself =>
                     (n \in DOMAIN acl[r] <=> /\ <<r, n[1]>> \in Configured
                                              /\ resources[<<r, n[1]>>].using
                                              /\ ~ Unplaced(r, n[1])')
               /\ \A a \in Action : Says(rows, r, n, a)' /\ ~ Exposed(n) =>
                     (n \in DOMAIN acl[r] /\ a \in DOMAIN acl[r][n]) \/ Left(r, n[1], a)'
    <3>1. /\ n[2] = Itself =>
               (n \in DOMAIN acl[r] <=> /\ <<r, n[1]>> \in Configured
                                        /\ resources[<<r, n[1]>>].using
                                        /\ ~ Unplaced(r, n[1]))
          /\ \A a \in Action : Says(rows, r, n, a) /\ ~ Exposed(n) =>
               (n \in DOMAIN acl[r] /\ a \in DOMAIN acl[r][n]) \/ Left(r, n[1], a)
      BY <1>2, <2>1 DEF Complete
    <3>2. /\ \A a : /\ Says(rows, r, n, a)' = Says(rows, r, n, a)
                    /\ Left(r, n[1], a)' = Left(r, n[1], a)
          /\ Unplaced(r, n[1])' = Unplaced(r, n[1])
      BY <1>1 DEF Says, rows, Left, Unplaced
    <3> QED
      BY <3>1, <3>2
  <2> QED
    BY <1>1, <2>1 DEF Complete, Configured, Exposed
<1>8. RowsOK(rows)' /\ RowsOK(before)' /\ AclOK' /\ WritingOK'
  BY <1>1, <1>2 DEF GrantInv, RowsOK, rows, AclOK, WritingOK
<1> QED
  BY <1>1, <1>2, <1>3, <1>6, <1>7, <1>8 DEF GrantInv, Configured

-----------------------------------------------------------------------------
(* The hooks *)

LEMMA WriteKeeps ==
    ASSUME GrantInv, NEW p \in todo, Write(p)
    PROVE  GrantInv'
<1> DEFINE r == p[1]
           c == p[2]
           uses == resources[p].using
           rest == Revoked(acl[r], c)
<1>1. /\ writing = None /\ todo' = todo \ {p}
      /\ acl' = [acl EXCEPT ![r] = rest]
      /\ writing' = IF uses
                    THEN [role |-> r, name |-> c, left |-> DOMAIN resources[p].actions,
                          placed |-> FALSE]
                    ELSE None
      /\ outdated' = outdated \ {p}
      /\ UNCHANGED <<roles, fields, resources, filter, before, failed>>
  BY DEF Write
<1>2. ~ failed /\ DOMAIN acl = roles /\ Sound /\ Complete /\ todo \subseteq Configured
  BY DEF GrantInv
<1>3. /\ p \in Configured /\ p = <<r, c>> /\ r \in roles /\ c \in Collection
      /\ resources[p] \in Resource
  BY <1>2 DEF GrantInv, RowsOK, rows, Configured
<1>4. /\ DOMAIN rest \subseteq DOMAIN acl[r]
      /\ \A n \in DOMAIN rest : n[1] # c /\ rest[n] = acl[r][n]
      /\ \A n \in DOMAIN acl[r] : n[1] # c => n \in DOMAIN rest \/ Exposed(n)
  BY <1>3, RevokedSpec
<1> HIDE DEF rest
<1>5. /\ DOMAIN acl' = roles
      /\ \A q \in roles : q # r => acl'[q] = acl[q]
      /\ acl'[r] = rest
  BY <1>1, <1>2, <1>3
<1>6. uses => /\ writing' = [role |-> r, name |-> c, left |-> DOMAIN resources[p].actions,
                             placed |-> FALSE]
              /\ writing' # None
  <2>1. ASSUME uses
        PROVE  writing' = [role |-> r, name |-> c, left |-> DOMAIN resources[p].actions,
                           placed |-> FALSE]
    BY <1>1, <2>1
  <2>2. uses => DOMAIN writing' # {}
    BY <2>1
  <2> QED
    BY <2>1, <2>2 DEF None
<1>7. \A n \in DOMAIN acl'[r] : n[1] # c /\ n \in DOMAIN acl[r] /\ acl'[r][n] = acl[r][n]
  BY <1>4, <1>5
<1>8. ASSUME NEW q \in roles, NEW n \in DOMAIN acl'[q], NEW a \in DOMAIN acl'[q][n]
      PROVE  /\ n \in DOMAIN acl[q] /\ acl'[q][n] = acl[q][n]
             /\ <<q, n[1]>> # p
  BY <1>3, <1>5, <1>7
<1>9. Sound'
  <2>1. ASSUME NEW q \in roles, NEW n \in DOMAIN acl'[q], NEW a \in DOMAIN acl'[q][n]
        PROVE  /\ <<q, n[1]>> \in todo' => Fits(before, q, n, a)'
               /\ <<q, n[1]>> \notin todo' => Fits(rows, q, n, a)'
               /\ <<q, n[1]>> \notin todo' \cup outdated' /\ n[2] = Itself =>
                     acl'[q][n][a] = Params(resources[<<q, n[1]>>].actions[a])'
    <3>1. /\ n \in DOMAIN acl[q] /\ acl'[q][n] = acl[q][n]
          /\ <<q, n[1]>> # p
      BY <1>8
    <3>2. /\ <<q, n[1]>> \in todo => Fits(before, q, n, a)
          /\ <<q, n[1]>> \notin todo => Fits(rows, q, n, a)
          /\ <<q, n[1]>> \notin todo \cup outdated /\ n[2] = Itself =>
                acl[q][n][a] = Params(resources[<<q, n[1]>>].actions[a])
      BY <1>2, <3>1 DEF Sound
    <3>3. /\ Fits(before, q, n, a)' = Fits(before, q, n, a)
          /\ Fits(rows, q, n, a)' = Fits(rows, q, n, a)
      BY <1>1, <3>1 DEF Fits, Says, rows
    <3> QED
      BY <1>1, <3>1, <3>2, <3>3 DEF Params, FilterOf
  <2> QED
    BY <1>5, <2>1 DEF Sound
<1>10. Complete'
  <2>1. ASSUME NEW q \in roles, NEW n \in Name, <<q, n[1]>> \notin todo'
        PROVE  /\ n[2] = Itself =>
                     (n \in DOMAIN acl'[q] <=> /\ <<q, n[1]>> \in Configured
                                               /\ resources[<<q, n[1]>>].using
                                               /\ ~ Unplaced(q, n[1])')
               /\ \A a \in Action : Says(rows, q, n, a) /\ ~ Exposed(n) =>
                     (n \in DOMAIN acl'[q] /\ a \in DOMAIN acl'[q][n]) \/ Left(q, n[1], a)'
    <3>1. CASE <<q, n[1]>> = p
      <4>1. q = r /\ n[1] = c
        BY <1>3, <3>1
      <4>2. n \notin DOMAIN acl'[q]
        BY <1>7, <4>1
      <4>3. uses => Unplaced(q, n[1])'
        BY <1>6, <4>1 DEF Unplaced, None
      <4>4. ASSUME NEW a \in Action, Says(rows, q, n, a) PROVE Left(q, n[1], a)'
        <5>1. uses /\ a \in DOMAIN resources[p].actions
          BY <3>1, <4>4 DEF Says, rows
        <5> QED
          BY <1>6, <4>1, <5>1 DEF Left, None
      <4> QED
        BY <3>1, <4>2, <4>3, <4>4
    <3>2. CASE <<q, n[1]>> # p
      <4>1. <<q, n[1]>> \notin todo
        BY <1>1, <2>1, <3>2
      <4>2. /\ n[2] = Itself =>
                 (n \in DOMAIN acl[q] <=> /\ <<q, n[1]>> \in Configured
                                          /\ resources[<<q, n[1]>>].using)
            /\ \A a \in Action : Says(rows, q, n, a) /\ ~ Exposed(n) =>
                 n \in DOMAIN acl[q] /\ a \in DOMAIN acl[q][n]
        BY <1>1, <1>2, <4>1 DEF Complete, Left, Unplaced
      <4>3. n[2] = Itself => ~ Exposed(n)
        BY DEF Exposed
      <4>6. ~ Unplaced(q, n[1])'
        <5>1. CASE uses
          BY <1>3, <1>6, <3>2, <5>1 DEF Unplaced
        <5>2. CASE ~ uses
          BY <1>1, <5>2 DEF Unplaced, None
        <5> QED
          BY <5>1, <5>2
      <4>4. CASE q = r
        <5>1. n[1] # c
          BY <1>3, <3>2, <4>4
        <5>2. /\ n \in DOMAIN acl'[q] => n \in DOMAIN acl[q]
              /\ n \in DOMAIN acl[q] /\ ~ Exposed(n) =>
                    n \in DOMAIN acl'[q] /\ acl'[q][n] = acl[q][n]
          BY <1>4, <1>5, <1>7, <4>4, <5>1
        <5> QED
          BY <4>2, <4>3, <4>6, <5>2
      <4>5. CASE q # r
        BY <1>5, <4>2, <4>5, <4>6
      <4> QED
        BY <4>4, <4>5
    <3> QED
      BY <3>1, <3>2
  <2>2. \A q, n, a : Says(rows, q, n, a)' = Says(rows, q, n, a)
    BY <1>1 DEF Says, rows
  <2> QED
    BY <1>1, <2>1, <2>2 DEF Complete, Configured, Exposed
<1>11. AclOK'
  <2>1. ASSUME NEW q \in roles
        PROVE  /\ DOMAIN acl'[q] \subseteq Name
               /\ \A n \in DOMAIN acl'[q] :
                     /\ DOMAIN acl'[q][n] \subseteq Action
                     /\ n[2] # Itself => DOMAIN acl'[q][n] # {}
    <3>1. CASE q # r
      BY <1>2, <1>5, <3>1 DEF GrantInv, AclOK
    <3>2. CASE q = r
      BY <1>2, <1>3, <1>7, <3>2 DEF GrantInv, AclOK
    <3> QED
      BY <3>1, <3>2
  <2> QED
    BY <1>5, <2>1 DEF AclOK
<1>12. WritingOK'
  <2>1. CASE uses
    <3>1. p \in Configured' \ todo' /\ IsWriting(p, DOMAIN resources[p].actions, FALSE)'
      BY <1>1, <1>3, <1>6, <2>1 DEF IsWriting, Configured
    <3> QED
      BY <1>1, <3>1 DEF WritingOK
  <2>2. CASE ~ uses
    BY <1>1, <2>2 DEF WritingOK
  <2> QED
    BY <2>1, <2>2
<1>13. RowsOK(rows)' /\ RowsOK(before)'
  BY <1>1 DEF GrantInv, RowsOK, rows
<1>14. todo' \subseteq Configured'
  BY <1>1, <1>2 DEF Configured
<1> QED
  BY <1>1, <1>2, <1>5, <1>9, <1>10, <1>11, <1>12, <1>13, <1>14 DEF GrantInv

\* the resource is in the ACL again, and grants nothing yet
LEMMA PlaceKeeps == ASSUME GrantInv, Place PROVE GrantInv'
<1> DEFINE r == writing.role
           c == writing.name
<1>1. /\ writing # None /\ ~ writing.placed
      /\ acl' = [acl EXCEPT ![r] = With(@, <<c, Itself>>, None)]
      /\ writing' = IF writing.left = {} THEN None ELSE [writing EXCEPT !.placed = TRUE]
      /\ UNCHANGED <<roles, fields, resources, filter, before, todo, outdated, failed>>
  BY DEF Place
<1>a. PICK w \in Configured \ todo : \E L \in SUBSET DOMAIN resources[w].actions :
          \E placed \in BOOLEAN : IsWriting(w, L, placed)
  BY <1>1 DEF GrantInv, WritingOK
<1>b. PICK L \in SUBSET DOMAIN resources[w].actions : \E placed \in BOOLEAN : IsWriting(w, L, placed)
  BY <1>a
<1>c. PICK placed \in BOOLEAN : IsWriting(w, L, placed)
  BY <1>b
<1>2. /\ writing = [role |-> w[1], name |-> w[2], left |-> L, placed |-> FALSE]
      /\ resources[w].using
  <2>1. placed = FALSE
    BY <1>1, <1>c DEF IsWriting
  <2> QED
    BY <1>c, <2>1 DEF IsWriting
<1>3. w \in roles \X DOMAIN fields /\ w[2] \in Collection
  BY DEF GrantInv, RowsOK, rows, Configured
<1>4. /\ w = <<r, c>> /\ r \in roles /\ c \in Collection /\ writing.left = L
      /\ ~ failed /\ DOMAIN acl = roles /\ Sound /\ Complete
  BY <1>1, <1>2, <1>3 DEF GrantInv
<1>5. L # {} => /\ writing' = [role |-> r, name |-> c, left |-> L, placed |-> TRUE]
                /\ writing' # None
  <2>1. L # {} => writing' = [role |-> r, name |-> c, left |-> L, placed |-> TRUE]
    BY <1>1, <1>2
  <2>2. L # {} => DOMAIN writing' # {}
    BY <2>1
  <2> QED
    BY <2>1, <2>2 DEF None
<1>6. L = {} => writing' = None
  BY <1>1, <1>4
<1> HIDE DEF r, c
<1>7. /\ DOMAIN acl' = roles
      /\ \A q \in roles : q # r => acl'[q] = acl[q]
      /\ DOMAIN acl'[r] = DOMAIN acl[r] \cup {<<c, Itself>>}
      /\ \A n \in DOMAIN acl[r] : n # <<c, Itself>> => acl'[r][n] = acl[r][n]
      /\ acl'[r][<<c, Itself>>] = None
  BY <1>1, <1>4 DEF With
<1>8. ASSUME NEW q \in roles, NEW n \in DOMAIN acl'[q]
      PROVE  \/ n \in DOMAIN acl[q] /\ acl'[q][n] = acl[q][n]
             \/ q = r /\ n = <<c, Itself>> /\ DOMAIN acl'[q][n] = {}
  BY <1>7 DEF None
<1>9. Sound'
  <2>1. ASSUME NEW q \in roles, NEW n \in DOMAIN acl'[q], NEW a \in DOMAIN acl'[q][n]
        PROVE  /\ <<q, n[1]>> \in todo' => Fits(before, q, n, a)'
               /\ <<q, n[1]>> \notin todo' => Fits(rows, q, n, a)'
               /\ <<q, n[1]>> \notin todo' \cup outdated' /\ n[2] = Itself =>
                     acl'[q][n][a] = Params(resources[<<q, n[1]>>].actions[a])'
    <3>1. n \in DOMAIN acl[q] /\ acl'[q][n] = acl[q][n]
      BY <1>8
    <3>2. /\ <<q, n[1]>> \in todo => Fits(before, q, n, a)
          /\ <<q, n[1]>> \notin todo => Fits(rows, q, n, a)
          /\ <<q, n[1]>> \notin todo \cup outdated /\ n[2] = Itself =>
                acl[q][n][a] = Params(resources[<<q, n[1]>>].actions[a])
      BY <1>4, <3>1 DEF Sound
    <3>3. /\ Fits(before, q, n, a)' = Fits(before, q, n, a)
          /\ Fits(rows, q, n, a)' = Fits(rows, q, n, a)
      BY <1>1, <3>1 DEF Fits, Says, rows
    <3> QED
      BY <1>1, <3>1, <3>2, <3>3 DEF Params, FilterOf
  <2> QED
    BY <1>7, <2>1 DEF Sound
<1>10. Complete'
  <2>1. ASSUME NEW q \in roles, NEW n \in Name, <<q, n[1]>> \notin todo
        PROVE  /\ n[2] = Itself =>
                     (n \in DOMAIN acl'[q] <=> /\ <<q, n[1]>> \in Configured
                                               /\ resources[<<q, n[1]>>].using
                                               /\ ~ Unplaced(q, n[1])')
               /\ \A a \in Action : Says(rows, q, n, a) /\ ~ Exposed(n) =>
                     (n \in DOMAIN acl'[q] /\ a \in DOMAIN acl'[q][n]) \/ Left(q, n[1], a)'
    <3>1. /\ n[2] = Itself =>
               (n \in DOMAIN acl[q] <=> /\ <<q, n[1]>> \in Configured
                                        /\ resources[<<q, n[1]>>].using
                                        /\ ~ Unplaced(q, n[1]))
          /\ \A a \in Action : Says(rows, q, n, a) /\ ~ Exposed(n) =>
               (n \in DOMAIN acl[q] /\ a \in DOMAIN acl[q][n]) \/ Left(q, n[1], a)
      BY <1>4, <2>1 DEF Complete
    <3>2. ~ Unplaced(q, n[1])'
      BY <1>5, <1>6 DEF Unplaced
    <3>3. \A a : Left(q, n[1], a) => Left(q, n[1], a)'
      BY <1>4, <1>5 DEF Left, r, c
    <3>4. CASE n[2] = Itself /\ <<q, n[1]>> = <<r, c>>
      <4>1. n = <<c, Itself>> /\ q = r
        BY <3>4 DEF Name
      <4>2. <<r, c>> \in Configured /\ resources[<<r, c>>].using
        BY <1>2, <1>4
      <4>3. <<r, <<c, Itself>>[1]>> \in Configured /\ resources[<<r, <<c, Itself>>[1]>>].using
        BY <4>2
      <4>4. Unplaced(r, c)
        BY <1>1, <1>4 DEF Unplaced, r, c
      <4> QED
        BY <1>7, <3>1, <3>2, <3>3, <3>4, <4>1, <4>2, <4>4
    <3>5. CASE ~ (n[2] = Itself /\ <<q, n[1]>> = <<r, c>>)
      <4>1. <<q, n[1]>> # <<r, c>> => ~ Unplaced(q, n[1])
        BY DEF Unplaced, r, c
      <4>2. q = r => n # <<c, Itself>>
        BY <3>5
      <4>3. n \in DOMAIN acl'[q] <=> n \in DOMAIN acl[q]
        BY <1>7, <4>2
      <4>4. n \in DOMAIN acl[q] => acl'[q][n] = acl[q][n]
        BY <1>7, <4>2
      <4> QED
        BY <3>1, <3>2, <3>3, <3>5, <4>1, <4>3, <4>4
    <3> QED
      BY <3>4, <3>5
  <2>2. \A q, n, a : Says(rows, q, n, a)' = Says(rows, q, n, a)
    BY <1>1 DEF Says, rows
  <2> QED
    BY <1>1, <2>1, <2>2 DEF Complete, Configured, Exposed
<1>11. AclOK'
  <2>1. <<c, Itself>> \in Name
    BY <1>4 DEF Name
  <2>2. ASSUME NEW q \in roles, NEW n \in DOMAIN acl'[q]
        PROVE  /\ n \in Name /\ DOMAIN acl'[q][n] \subseteq Action
               /\ n[2] # Itself => DOMAIN acl'[q][n] # {}
    BY <1>4, <1>8, <2>1, AclEntry DEF GrantInv
  <2> QED
    BY <1>7, <2>2 DEF AclOK
<1>12. WritingOK'
  <2>1. CASE L = {}
    BY <1>6, <2>1 DEF WritingOK
  <2>2. CASE L # {}
    <3>1. IsWriting(w, L, TRUE)'
      BY <1>1, <1>2, <1>4, <1>5, <2>2 DEF IsWriting
    <3>2. w \in Configured' \ todo' /\ L \in SUBSET DOMAIN resources'[w].actions
      BY <1>1 DEF Configured
    <3> QED
      BY <3>1, <3>2 DEF WritingOK
  <2> QED
    BY <2>1, <2>2
<1>13. RowsOK(rows)' /\ RowsOK(before)' /\ todo' \subseteq Configured'
  BY <1>1 DEF GrantInv, RowsOK, rows, Configured
<1> QED
  BY <1>1, <1>4, <1>7, <1>9, <1>10, <1>11, <1>12, <1>13 DEF GrantInv

LEMMA GrantKeeps ==
    ASSUME GrantInv, NEW a \in Action, Grant(a)
    PROVE  GrantInv'
<1> DEFINE r == writing.role
           c == writing.name
           p == <<r, c>>
           config == resources[p].actions[a]
           brought == {<<c, f>> : f \in Brought(c, a, config)}
           self == Granted(acl[r], <<c, Itself>>, a, Params(config))
<1>1. /\ writing # None /\ writing.placed /\ a \in writing.left
      /\ acl' = [acl EXCEPT ![r] =
                    [n \in DOMAIN self \cup brought |->
                        IF n \in brought
                        THEN With(IF n \in DOMAIN self THEN self[n] ELSE None, a, NoParams)
                        ELSE self[n]]]
      /\ writing' = IF writing.left = {a} THEN None ELSE [writing EXCEPT !.left = @ \ {a}]
      /\ UNCHANGED <<roles, fields, resources, filter, before, todo, outdated, failed>>
  BY DEF Grant
<1>a. PICK w \in Configured \ todo : \E L \in SUBSET DOMAIN resources[w].actions :
          \E placed \in BOOLEAN : IsWriting(w, L, placed)
  BY <1>1 DEF GrantInv, WritingOK
<1>b. PICK L \in SUBSET DOMAIN resources[w].actions : \E placed \in BOOLEAN : IsWriting(w, L, placed)
  BY <1>a
<1>c. PICK placed \in BOOLEAN : IsWriting(w, L, placed)
  BY <1>b
<1>2. /\ writing = [role |-> w[1], name |-> w[2], left |-> L, placed |-> TRUE]
      /\ resources[w].using
      /\ L # {}
  <2>1. placed = TRUE
    BY <1>1, <1>c DEF IsWriting
  <2> QED
    BY <1>c, <2>1 DEF IsWriting
<1>3. w \in roles \X DOMAIN fields /\ w[2] \in Collection
  BY DEF GrantInv, RowsOK, rows, Configured
<1>4. /\ p = w /\ p \in Configured /\ p \notin todo /\ r \in roles /\ c \in DOMAIN fields
      /\ c \in Collection /\ resources[p].using /\ a \in DOMAIN resources[p].actions
      /\ writing = [role |-> r, name |-> c, left |-> L, placed |-> TRUE]
      /\ L \subseteq DOMAIN resources[p].actions
  BY <1>1, <1>2, <1>3
<1>5. ~ failed /\ DOMAIN acl = roles /\ Sound /\ Complete
  BY <1>1 DEF GrantInv
<1>6. config.fields \subseteq fields[c]
  BY <1>4 DEF GrantInv, RowsOK, rows, Configured
<1>7. \A n : n \in brought <=> /\ a \in Bringing
                               /\ \E f \in config.fields \cap Association : n = <<c, f>>
  BY <1>4, <1>6 DEF Brought
<1>8. <<c, Itself>> \in Name /\ <<c, Itself>> \notin brought
  BY <1>4, <1>7, ConstantsAssumption, NamesAssumption DEF Name
<1>9. \A n \in brought : n[1] = c /\ n[2] \in config.fields \cap Association /\ n[2] # Itself /\ n \in Name
  BY <1>4, <1>7, ConstantsAssumption, NamesAssumption DEF Name
<1>10. <<c, Itself>> \in DOMAIN acl[r]
  <2>1. ~ Unplaced(r, c)
    BY <1>1 DEF Unplaced
  <2> HIDE DEF r, c, p
  <2>2. <<r, <<c, Itself>>[1]>> = p /\ <<c, Itself>>[2] = Itself
    BY DEF p
  <2> QED
    BY <1>4, <1>5, <1>8, <2>1, <2>2 DEF Complete
<1>11. /\ DOMAIN self = DOMAIN acl[r]
       /\ \A n \in DOMAIN acl[r] : n # <<c, Itself>> => self[n] = acl[r][n]
       /\ self[<<c, Itself>>] = With(acl[r][<<c, Itself>>], a, Params(config))
  BY <1>10 DEF Granted, With
<1> HIDE DEF self, brought, config, p
<1>12. /\ DOMAIN acl' = roles
       /\ \A q \in roles : q # r => acl'[q] = acl[q]
       /\ DOMAIN acl'[r] = DOMAIN acl[r] \cup brought
       /\ \A n \in DOMAIN acl'[r] :
             acl'[r][n] = IF n \in brought
                          THEN With(IF n \in DOMAIN self THEN self[n] ELSE None, a, NoParams)
                          ELSE self[n]
  BY <1>1, <1>4, <1>5, <1>11
\* what the step does to each resource
<1>13. ASSUME NEW n \in DOMAIN acl'[r]
       PROVE  \/ n \in DOMAIN acl[r] /\ acl'[r][n] = acl[r][n]
              \/ /\ n \in DOMAIN acl[r] \/ n \in brought
                 /\ n = <<c, Itself>> \/ n \in brought
                 /\ DOMAIN acl'[r][n] = (IF n \in DOMAIN acl[r] THEN DOMAIN acl[r][n] ELSE {}) \cup {a}
                 /\ \A b \in DOMAIN acl'[r][n] : b # a => acl'[r][n][b] = acl[r][n][b]
                 /\ n = <<c, Itself>> => acl'[r][n][a] = Params(config)
  <2>1. CASE n \in brought
    <3>1. n # <<c, Itself>>
      BY <1>8, <2>1
    <3>2. CASE n \in DOMAIN acl[r]
      <4>1. acl'[r][n] = With(acl[r][n], a, NoParams)
        BY <1>11, <1>12, <2>1, <3>1, <3>2
      <4> QED
        BY <2>1, <3>1, <3>2, <4>1 DEF With
    <3>3. CASE n \notin DOMAIN acl[r]
      <4>1. acl'[r][n] = With(None, a, NoParams)
        BY <1>11, <1>12, <2>1, <3>3
      <4> QED
        BY <2>1, <3>1, <3>3, <4>1 DEF With, None
    <3> QED
      BY <3>2, <3>3
  <2>2. CASE n = <<c, Itself>>
    <3>1. acl'[r][n] = With(acl[r][n], a, Params(config))
      BY <1>8, <1>11, <1>12, <2>2
    <3> QED
      BY <1>10, <2>2, <3>1 DEF With
  <2>3. CASE n \notin brought /\ n # <<c, Itself>>
    BY <1>11, <1>12, <2>3
  <2> QED
    BY <2>1, <2>2, <2>3

\* what is granted was granted before, or is the action a of the resource
<1>14. ASSUME NEW q \in roles, NEW n \in DOMAIN acl'[q], NEW b \in DOMAIN acl'[q][n]
       PROVE  \/ n \in DOMAIN acl[q] /\ b \in DOMAIN acl[q][n] /\ acl'[q][n][b] = acl[q][n][b]
              \/ /\ q = r /\ b = a
                 /\ n = <<c, Itself>> \/ n \in brought
                 /\ n = <<c, Itself>> => acl'[q][n][b] = Params(config)
  <2>1. CASE q # r
    BY <1>12, <2>1
  <2>2. CASE q = r
    BY <1>13, <2>2
  <2> QED
    BY <2>1, <2>2
<1>15. \A q, n, b : Says(rows, q, n, b)' = Says(rows, q, n, b)
  BY <1>1 DEF Says, rows
<1>16. Sound'
  <2>1. ASSUME NEW q \in roles, NEW n \in DOMAIN acl'[q], NEW b \in DOMAIN acl'[q][n]
        PROVE  /\ <<q, n[1]>> \in todo' => Fits(before, q, n, b)'
               /\ <<q, n[1]>> \notin todo' => Fits(rows, q, n, b)'
               /\ <<q, n[1]>> \notin todo' \cup outdated' /\ n[2] = Itself =>
                     acl'[q][n][b] = Params(resources[<<q, n[1]>>].actions[b])'
    <3>1. CASE n \in DOMAIN acl[q] /\ b \in DOMAIN acl[q][n] /\ acl'[q][n][b] = acl[q][n][b]
      <4>1. /\ <<q, n[1]>> \in todo => Fits(before, q, n, b)
            /\ <<q, n[1]>> \notin todo => Fits(rows, q, n, b)
            /\ <<q, n[1]>> \notin todo \cup outdated /\ n[2] = Itself =>
                  acl[q][n][b] = Params(resources[<<q, n[1]>>].actions[b])
        BY <1>5, <3>1 DEF Sound
      <4>2. /\ Fits(before, q, n, b)' = Fits(before, q, n, b)
            /\ Fits(rows, q, n, b)' = Fits(rows, q, n, b)
        BY <1>1, <3>1 DEF Fits, Says, rows
      <4> QED
        BY <1>1, <3>1, <4>1, <4>2 DEF Params, FilterOf
    <3>2. CASE /\ q = r /\ b = a
               /\ n = <<c, Itself>> \/ n \in brought
               /\ n = <<c, Itself>> => acl'[q][n][b] = Params(config)
      <4>1. <<q, n[1]>> = p
        BY <1>9, <3>2 DEF p
      <4>2. Says(rows, q, n, b)
        <5>1. CASE n = <<c, Itself>>
          BY <1>4, <3>2, <4>1, <5>1 DEF Says, rows, Configured
        <5>2. CASE n \in brought
          <6>1. a \in Bringing /\ n[2] \in config.fields \cap Association
            BY <1>7, <5>2
          <6> QED
            BY <1>4, <3>2, <4>1, <6>1 DEF Says, rows, Configured, config
        <5> QED
          BY <3>2, <5>1, <5>2
      <4>3. n[2] = Itself => n = <<c, Itself>>
        BY <1>9, <3>2
      <4>4. n[2] = Itself => acl'[q][n][b] = Params(config)
        BY <3>2, <4>3
      <4>5. /\ Params(config).fields = config.fields
            /\ Params(config).scope = config.scope
        BY DEF Params
      <4>6. Says(rows, q, n, b)'
        BY <1>15, <4>2
      <4>7. config = rows.resources[<<q, n[1]>>].actions[b]'
        BY <1>1, <3>2, <4>1 DEF rows, config
      <4>8. Fits(rows, q, n, b)'
        BY <4>4, <4>5, <4>6, <4>7 DEF Fits
      <4>9. Params(resources[<<q, n[1]>>].actions[b])' = Params(config)
        BY <1>1, <3>2, <4>1 DEF Params, FilterOf, config
      <4>10. <<q, n[1]>> \notin todo'
        BY <1>1, <1>4, <4>1
      <4> QED
        BY <4>4, <4>8, <4>9, <4>10
    <3> QED
      BY <1>14, <3>1, <3>2
  <2> QED
    BY <1>12, <2>1 DEF Sound
\* what was granted is still
<1>17. \A q \in roles : \A n \in DOMAIN acl[q] :
          n \in DOMAIN acl'[q] /\ \A b \in DOMAIN acl[q][n] : b \in DOMAIN acl'[q][n]
  <2>1. \A n \in DOMAIN acl[r] : n \in DOMAIN acl'[r]
    BY <1>12
  <2> QED
    BY <1>12, <1>13, <2>1
<1>18. ASSUME NEW q, NEW d, NEW b \in Action, Left(q, d, b), b # a
       PROVE  Left(q, d, b)'
  <2>1. b \in L /\ writing.left = L /\ q = r /\ d = c
    BY <1>4, <1>18 DEF Left
  <2>2. writing' = [role |-> r, name |-> c, left |-> L \ {a}, placed |-> TRUE]
    BY <1>1, <1>4, <1>18, <2>1
  <2>3. writing' # None
    <3>1. DOMAIN writing' # {}
      BY <2>2
    <3> QED
      BY <3>1 DEF None
  <2> HIDE DEF r, c
  <2> QED
    BY <1>18, <2>1, <2>2, <2>3 DEF Left, None
<1>19. Complete'
  <2>1. ASSUME NEW q \in roles, NEW n \in Name, <<q, n[1]>> \notin todo
        PROVE  /\ n[2] = Itself =>
                     (n \in DOMAIN acl'[q] <=> /\ <<q, n[1]>> \in Configured
                                               /\ resources[<<q, n[1]>>].using
                                               /\ ~ Unplaced(q, n[1])')
               /\ \A b \in Action : Says(rows, q, n, b) /\ ~ Exposed(n) =>
                     (n \in DOMAIN acl'[q] /\ b \in DOMAIN acl'[q][n]) \/ Left(q, n[1], b)'
    <3>1. /\ n[2] = Itself =>
               (n \in DOMAIN acl[q] <=> /\ <<q, n[1]>> \in Configured
                                        /\ resources[<<q, n[1]>>].using
                                        /\ ~ Unplaced(q, n[1]))
          /\ \A b \in Action : Says(rows, q, n, b) /\ ~ Exposed(n) =>
               (n \in DOMAIN acl[q] /\ b \in DOMAIN acl[q][n]) \/ Left(q, n[1], b)
      BY <1>5, <2>1 DEF Complete
    <3>2. n[2] = Itself => (n \in DOMAIN acl'[q] <=> n \in DOMAIN acl[q])
      BY <1>9, <1>12
    <3>4. ~ Unplaced(q, n[1]) /\ ~ Unplaced(q, n[1])'
      BY <1>1, <1>4 DEF Unplaced
    <3>3. ASSUME NEW b \in Action, Says(rows, q, n, b), Left(q, n[1], b)
          PROVE  (n \in DOMAIN acl'[q] /\ b \in DOMAIN acl'[q][n]) \/ Left(q, n[1], b)'
      <4>1. q = r /\ n[1] = c
        BY <3>3 DEF Left
      <4>2. CASE b # a
        BY <1>18, <3>3, <4>1, <4>2
      <4>3. CASE b = a
        <5>1. n = <<c, Itself>> \/ n \in brought
          <6>1. CASE n[2] = Itself
            BY <4>1, <6>1 DEF Name
          <6>2. CASE n[2] # Itself
            <7>1. a \in Bringing /\ n[2] \in config.fields \cap Association
              BY <1>4, <3>3, <4>1, <4>3, <6>2 DEF Says, rows, config, p
            <7>2. n = <<c, n[2]>>
              BY <4>1 DEF Name
            <7> QED
              BY <1>7, <7>1, <7>2
          <6> QED
            BY <6>1, <6>2
        <5>2. n \in DOMAIN acl'[r]
          BY <1>10, <1>12, <5>1
        <5>3. a \in DOMAIN acl'[r][n]
          <6>1. CASE n \in brought
            <7>1. \E R : acl'[r][n] = With(R, a, NoParams)
              BY <1>12, <5>2, <6>1
            <7> QED
              BY <7>1 DEF With
          <6>2. CASE n = <<c, Itself>>
            <7>1. acl'[r][n] = With(acl[r][n], a, Params(config))
              BY <1>8, <1>11, <1>12, <5>2, <6>2
            <7> QED
              BY <7>1 DEF With
          <6> QED
            BY <5>1, <6>1, <6>2
        <5> QED
          BY <4>1, <4>3, <5>2, <5>3
      <4> QED
        BY <4>2, <4>3
    <3> QED
      BY <1>17, <3>1, <3>2, <3>3, <3>4
  <2> QED
    BY <1>1, <1>15, <2>1 DEF Complete, Configured, Exposed
<1>20. AclOK'
  <2>1. ASSUME NEW q \in roles, NEW n \in DOMAIN acl'[q]
        PROVE  /\ n \in Name /\ DOMAIN acl'[q][n] \subseteq Action
               /\ n[2] # Itself => DOMAIN acl'[q][n] # {}
    <3>1. \A m \in DOMAIN acl[q] : /\ m \in Name /\ DOMAIN acl[q][m] \subseteq Action
                                   /\ m[2] # Itself => DOMAIN acl[q][m] # {}
      BY <1>5, AclEntry DEF GrantInv
    <3>2. CASE q # r
      BY <1>12, <3>1, <3>2
    <3>3. CASE q = r
      BY <1>8, <1>9, <1>13, <3>1, <3>3
    <3> QED
      BY <3>2, <3>3
  <2> QED
    BY <1>12, <2>1 DEF AclOK
<1>21. WritingOK'
  <2>1. CASE writing.left = {a}
    BY <1>1, <2>1 DEF WritingOK, None
  <2>2. CASE writing.left # {a}
    <3>1. writing' = [role |-> w[1], name |-> w[2], left |-> L \ {a}, placed |-> TRUE]
      BY <1>1, <1>2, <2>2
    <3>2. L \ {a} # {}
      BY <1>1, <1>2, <2>2
    <3>3. L \ {a} \in SUBSET DOMAIN resources'[w].actions
      BY <1>1
    <3>4. w \in Configured' \ todo' /\ resources'[w].using
      BY <1>1, <1>2 DEF Configured
    <3>5. IsWriting(w, L \ {a}, TRUE)'
      BY <3>1, <3>2, <3>4 DEF IsWriting
    <3> QED
      BY <3>3, <3>4, <3>5 DEF WritingOK
  <2> QED
    BY <2>1, <2>2
<1>22. RowsOK(rows)' /\ RowsOK(before)' /\ todo' \subseteq Configured'
  BY <1>1 DEF GrantInv, RowsOK, rows, Configured
<1> QED
  BY <1>1, <1>5, <1>12, <1>16, <1>19, <1>20, <1>21, <1>22 DEF GrantInv

-----------------------------------------------------------------------------
(* The end of a transaction, and a new ACL *)

LEMMA CommitKeeps == ASSUME GrantInv, Commit PROVE GrantInv'
<1>1. /\ todo = {} /\ writing = None /\ before' = rows
      /\ UNCHANGED <<roles, fields, resources, filter, todo, writing, acl, outdated, failed>>
  BY DEF Commit, Written
<1>2. RowsOK(rows)' /\ RowsOK(before)' /\ AclOK' /\ WritingOK'
  BY <1>1 DEF GrantInv, RowsOK, rows, AclOK, WritingOK, IsWriting
<1>3. ASSUME ~ failed PROVE Sound' /\ Complete'
  <2>1. Sound /\ Complete
    BY <1>3 DEF GrantInv
  <2>2. ASSUME NEW r \in DOMAIN acl', NEW n \in DOMAIN acl'[r], NEW a \in DOMAIN acl'[r][n]
        PROVE  /\ <<r, n[1]>> \notin todo'
               /\ Fits(rows, r, n, a)'
               /\ <<r, n[1]>> \notin outdated' /\ n[2] = Itself =>
                     acl'[r][n][a] = Params(resources[<<r, n[1]>>].actions[a])'
    <3>1. /\ Fits(rows, r, n, a) /\ <<r, n[1]>> \notin todo
          /\ <<r, n[1]>> \notin outdated /\ n[2] = Itself =>
                acl[r][n][a] = Params(resources[<<r, n[1]>>].actions[a])
      BY <1>1, <2>1 DEF Sound
    <3>2. Fits(rows, r, n, a)' = Fits(rows, r, n, a)
      BY <1>1 DEF Fits, Says, rows
    <3> QED
      BY <1>1, <3>1, <3>2 DEF Params, FilterOf
  <2>3. Sound'
    BY <2>2 DEF Sound
  <2>4. \A r, n, a : Says(rows, r, n, a)' = Says(rows, r, n, a)
    BY <1>1 DEF Says, rows
  <2>5. \A r, c, a : ~ Left(r, c, a) /\ ~ Unplaced(r, c) /\ ~ Left(r, c, a)' /\ ~ Unplaced(r, c)'
    BY <1>1 DEF Left, Unplaced
  <2>6. Complete'
    BY <1>1, <2>1, <2>4, <2>5 DEF Complete, Configured, Exposed
  <2> QED
    BY <2>3, <2>6
<1> QED
  BY <1>1, <1>2, <1>3 DEF GrantInv, Configured

LEMMA RollbackKeeps == ASSUME GrantInv, Rollback PROVE GrantInv'
<1>1. /\ roles' = before.roles /\ fields' = before.fields /\ resources' = before.resources
      /\ todo' = {} /\ writing' = None /\ failed' = TRUE
      /\ UNCHANGED <<filter, before, acl, outdated>>
  BY DEF Rollback
<1>2. RowsOK(rows)' /\ RowsOK(before)' /\ AclOK' /\ WritingOK'
  BY <1>1 DEF GrantInv, RowsOK, rows, AclOK, WritingOK, None
<1> QED
  BY <1>1, <1>2 DEF GrantInv

\* the new ACL grants nothing, and all that is configured is to write
LEMMA ReloadKeeps == ASSUME GrantInv, Reload PROVE GrantInv'
<1>1. /\ todo = {} /\ writing = None
      /\ acl' = [r \in roles |-> None]
      /\ todo' = Configured /\ failed' = FALSE
      /\ UNCHANGED <<roles, fields, resources, filter, before, writing>>
  BY DEF Reload, Idle, Written
<1>2. /\ DOMAIN acl' = roles
      /\ \A r \in roles : DOMAIN acl'[r] = {}
  BY <1>1 DEF None
<1>3. RowsOK(rows)' /\ RowsOK(before)' /\ AclOK' /\ WritingOK'
  BY <1>1, <1>2 DEF GrantInv, RowsOK, rows, AclOK, WritingOK
<1>4. Sound'
  BY <1>2 DEF Sound
<1>5. Complete'
  BY <1>1, <1>2 DEF Complete, Says, rows, Configured, Unplaced
<1> QED
  BY <1>1, <1>2, <1>3, <1>4, <1>5 DEF GrantInv, Configured

-----------------------------------------------------------------------------
(* The specification *)

LEMMA InitKeeps == Init => GrantInv
<1> SUFFICES ASSUME Init PROVE GrantInv
  OBVIOUS
<1>1. DOMAIN None = {}
  BY DEF None
<1>2. filter \in [Scope -> 1..(MaxEdits + 1)]
  BY ConstantsAssumption DEF Init
<1>3. RowsOK(rows) /\ RowsOK(before)
  BY <1>1 DEF Init, RowsOK, rows
<1>4. AclOK /\ Sound /\ Complete /\ WritingOK
  BY <1>1 DEF Init, AclOK, Sound, Complete, WritingOK, Unplaced
<1> QED
  BY <1>1, <1>2, <1>3, <1>4 DEF Init, GrantInv

LEMMA NextKeeps == GrantInv /\ [Next]_vars => GrantInv'
<1> SUFFICES ASSUME GrantInv, [Next]_vars PROVE GrantInv'
  OBVIOUS
<1>1. ASSUME NEW r \in Role, SaveRole(r) PROVE GrantInv'
  BY <1>1, SaveRoleKeeps
<1>2. ASSUME NEW r \in Role, DestroyRole(r) PROVE GrantInv'
  BY <1>2, DestroyRoleKeeps
<1>3. ASSUME NEW r \in Role, NEW c \in Collection, NEW setting \in Settings,
             SaveResource(r, c, setting)
      PROVE  GrantInv'
  BY <1>3, SaveResourceKeeps
<1>4. ASSUME NEW r \in Role, NEW c \in Collection, DestroyResource(r, c) PROVE GrantInv'
  BY <1>4, DestroyResourceKeeps
<1>5. ASSUME NEW c \in Collection, CreateCollection(c) PROVE GrantInv'
  BY <1>5, CreateCollectionKeeps
<1>6. ASSUME NEW c \in Collection, DestroyCollection(c) PROVE GrantInv'
  BY <1>6, DestroyCollectionKeeps
<1>7. ASSUME NEW c \in Collection, NEW f \in Field, CreateField(c, f) PROVE GrantInv'
  BY <1>7, CreateFieldKeeps
<1>8. ASSUME NEW c \in Collection, NEW f \in Field, DestroyField(c, f) PROVE GrantInv'
  BY <1>8, DestroyFieldKeeps
<1>9. ASSUME NEW s \in Scope, EditScope(s) PROVE GrantInv'
  BY <1>9, EditScopeKeeps
<1>10. ASSUME NEW p \in todo, Write(p) PROVE GrantInv'
  BY <1>10, WriteKeeps
<1>11. ASSUME NEW a \in Action, Grant(a) PROVE GrantInv'
  BY <1>11, GrantKeeps
<1>16. CASE Place
  BY <1>16, PlaceKeeps
<1>12. CASE Commit
  BY <1>12, CommitKeeps
<1>13. CASE Rollback
  BY <1>13, RollbackKeeps
<1>14. CASE Reload
  BY <1>14, ReloadKeeps
<1>15. CASE UNCHANGED vars
  <2>1. /\ UNCHANGED <<roles, fields, resources, filter, before, todo, writing, acl, outdated, failed>>
    BY <1>15 DEF vars
  <2>2. RowsOK(rows)' /\ RowsOK(before)' /\ AclOK' /\ WritingOK'
    BY <2>1 DEF GrantInv, RowsOK, rows, AclOK, WritingOK, IsWriting, Configured
  <2>3. ASSUME Sound PROVE Sound'
    <3>1. ASSUME NEW r \in DOMAIN acl', NEW n \in DOMAIN acl'[r], NEW a \in DOMAIN acl'[r][n]
          PROVE  /\ <<r, n[1]>> \in todo' => Fits(before, r, n, a)'
                 /\ <<r, n[1]>> \notin todo' => Fits(rows, r, n, a)'
                 /\ <<r, n[1]>> \notin todo' \cup outdated' /\ n[2] = Itself =>
                       acl'[r][n][a] = Params(resources[<<r, n[1]>>].actions[a])'
      <4>1. /\ <<r, n[1]>> \in todo => Fits(before, r, n, a)
            /\ <<r, n[1]>> \notin todo => Fits(rows, r, n, a)
            /\ <<r, n[1]>> \notin todo \cup outdated /\ n[2] = Itself =>
                  acl[r][n][a] = Params(resources[<<r, n[1]>>].actions[a])
        BY <2>1, <2>3 DEF Sound
      <4>2. /\ Fits(before, r, n, a)' = Fits(before, r, n, a)
            /\ Fits(rows, r, n, a)' = Fits(rows, r, n, a)
        BY <2>1 DEF Fits, Says, rows
      <4> QED
        BY <2>1, <4>1, <4>2 DEF Params, FilterOf
    <3> QED
      BY <3>1 DEF Sound
  <2>4. ASSUME Complete PROVE Complete'
    <3>1. ASSUME NEW r \in roles', NEW n \in Name, <<r, n[1]>> \notin todo'
          PROVE  /\ n[2] = Itself =>
                       (n \in DOMAIN acl'[r] <=> /\ <<r, n[1]>> \in Configured'
                                                 /\ resources'[<<r, n[1]>>].using
                                                 /\ ~ Unplaced(r, n[1])')
                 /\ \A a \in Action : Says(rows, r, n, a)' /\ ~ Exposed(n) =>
                       (n \in DOMAIN acl'[r] /\ a \in DOMAIN acl'[r][n]) \/ Left(r, n[1], a)'
      <4>1. /\ n[2] = Itself =>
                 (n \in DOMAIN acl[r] <=> /\ <<r, n[1]>> \in Configured
                                          /\ resources[<<r, n[1]>>].using
                                          /\ ~ Unplaced(r, n[1]))
            /\ \A a \in Action : Says(rows, r, n, a) /\ ~ Exposed(n) =>
                 (n \in DOMAIN acl[r] /\ a \in DOMAIN acl[r][n]) \/ Left(r, n[1], a)
        BY <2>1, <2>4, <3>1 DEF Complete
      <4>2. \A a : /\ Says(rows, r, n, a)' = Says(rows, r, n, a)
                   /\ Left(r, n[1], a)' = Left(r, n[1], a)
                   /\ Unplaced(r, n[1])' = Unplaced(r, n[1])
        BY <2>1 DEF Says, rows, Left, Unplaced
      <4> QED
        BY <2>1, <4>1, <4>2 DEF Configured
    <3> QED
      BY <3>1 DEF Complete, Exposed
  <2> QED
    BY <2>1, <2>2, <2>3, <2>4 DEF GrantInv, Configured
<1> QED
  BY <1>1, <1>2, <1>3, <1>4, <1>5, <1>6, <1>7, <1>8, <1>9, <1>10, <1>11, <1>12, <1>13,
     <1>14, <1>15, <1>16 DEF Next

LEMMA GrantsAreInvariant == Spec => []GrantInv
BY InitKeeps, NextKeeps, PTL DEF Spec

\* The rows and the ACL have their types: a resource is configured for a role
\* and a collection that exist, and unless a transaction failed the ACL has the
\* roles that the table has.
THEOREM TypeCorrect == Spec => []TypeOK
BY GrantsAreInvariant, GrantInvTypes, PTL

\* Once a request is answered, the ACL of the process decides what the rows of
\* rolesResources and rolesResourcesActions and the strategies decide
\* (writeToACL() of the models, the hooks of plugins/acl/src/server.ts, can()).
THEOREM AclAgrees == Spec => []GrantsAgree
BY GrantsAreInvariant, GrantInvAgrees, PTL

\* A request that is answered in the middle of a transaction, while resources
\* are revoked and granted again one by one, may do nothing that neither the
\* rows before nor the rows after the transaction let it do, but for what the
\* strategy of its role allows of a resource that is not written to its end, or
\* of an association that was lost with another resource.
THEOREM NothingExtraGranted == Spec => []NothingExtra
BY GrantsAreInvariant, GrantInvNothingExtra, PTL

=============================================================================
