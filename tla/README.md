# COCFET-BACKEND: specifications

TLA+ models of the NestJS backend of COCFET (`src/`), checked with TLC, with
theorems proved with TLAPS. Names are those of the code, so that a definition and
its function can be read side by side; `PROJECT.json` (`map`) gives the lines.

## 1. The system

One Node process over one PostgreSQL database. Requests interleave at every
`await`; there are few database transactions and few locks, so that what protects
the data is the condition in each `UPDATE ... WHERE`. Money comes in through the
provider Fapshi, which creates a payment on our call, lets the payer validate it on
a telephone, and later notifies us by a webhook that may be lost or repeated.
Payments announced off line are accepted by the treasury on a proof.

| Component (`src/src/modules`) | State | Operations | Hard behaviour | What makes it correct |
|---|---|---|---|---|
| `paiement` (transactions, reconciliation, webhook, return page) | table `transactions` | open, settle, certify, reopen, give up | three kinds of handlers on one row, lost and repeated notifications, restart, expiry racing an answer | never COMPLETE unpaid; an issue is final and carried once; nobody waits for ever |
| `paiement` (fees) | rates of the environment | compute the price asked for | rounding of floating point | the price covers its cost, to a few francs |
| `billetterie`, `evenement` | `inscriptions`, counter of places, options' stock | register (alone or a group), pay, cancel, reopen, transfer, scan, prize, edit | last place, payment after cancellation, scan against cancellation, a group half registered | the counter and the stocks are exact; a valid ticket is paid; an entry is final |
| `cotisation` | contributions, participations, payments, instalments | draft, open, call, close, pay for oneself or for several, give up, credit, undo | read-then-write under in-memory queues that not everybody takes | balance = sum of credited payments; SOLDEE iff paid; everybody aimed at is called once |
| `justificatif` | proofs | submit, accept, refuse, undo | two treasurers on one proof, proof and webhook on one payment | a payment by proof is credited iff its proof is accepted |
| `boutique`, `commande` | products, variants, orders | reserve stock, order, pay, cancel, prepare, hand over, edit | stock on two levels, rows saved whole after a stale reading | stock + living orders = supply |
| `don` | donations | give | call failing after the row was written | the donor stays unknown; counted iff received |
| `fonds` | movements, deposits | declare, deposit, attribute | two declarations on one pocket, deposit given up and paid | no money spent twice |
| `solde` | readings of the provider's balance | read, compare, note | figures of different moments | what is noted as gone left; what left is noted |
| `auth`, `user` | accounts, links, sessions | register, confirm, log in, refresh, change, delete, purge | one link or token used twice at once | a link works once; a session ends with its credentials |
| `bureau`, `generation` | posts, mandates, roles | appoint, take back, start a mandate | roles recomputed by several requests of several statements | roles follow posts; the platform keeps somebody to run it |
| `sondage` | polls, ballots, two kinds of counters | open, vote, edit, close, delete | vote against closing, two votes | one vote each; counters = ballots |
| `notification` | notifications, settings, reminders | remind, diffuse, set, read | overlapping passes, settings changed meanwhile | sent once, in order, as people asked |
| `mail` | ways set aside | try ways one after the other | shared pauses, late acknowledgement | a way whose quota is spent is left alone, nobody is blocked |
| `document`, `file` | stored files | draw, serve, clean | deletion against use | a file is served to whom it concerns |
| `article`, `sponsor`, `annuaire`, `activite`, `tableau-de-bord` | texts, requests, logs | edit, publish, read | little beyond single-row writes | |
| `common` | in-memory counters | rate limit, error filter, pagination | window boundary | the limit is a limit |

How they interact: a domain opens a row of the journal, calls the provider outside
any transaction, and is called back (`RepercussionPaiementService`) when the row
changes state. `JustificatifService` is the second source of such changes. The
reference of a payment is the code of the ticket, or the reference of the
contribution payment, through which each domain finds its own row. `fonds` and
`solde` read what the others wrote. Mandates write the roles every guard reads;
diffusions read the accounts and hand emails to the cascade.

## 2. What is modelled

| Module | Code | Composition |
|---|---|---|
| `Journal` | `TransactionService`: the rows and each conditional `UPDATE` (`AppliquerAffecte` is its WHERE) | extended by every module that settles payments |
| `Paiement` | one or more payments: opening request, Fapshi, webhook, reconciliation cron, return page, restart; the domain is a counter of effects | `Journal` |
| `Promesse` | abstract: a payment has an outcome the domain hears of once | implemented by `Paiement` |
| `Contrat` | the refinement mapping from `Paiement` to `Promesse` | `Paiement`, an instance of `Promesse` |
| `PaiementProofs` | theorems about `Paiement`, and that it implements `Promesse` | `Contrat`, `JournalProofs` |
| `CommandeProofs`, `CotisationProofs` | theorems about the module they name | that module, TLAPS |
| `BilletterieProofs` | theorems about `Billetterie` and `Groupe` | those two, `JournalProofs` |
| `PlateformeProofs` | theorems about `Auth`, `Mandats`, `Sondage`, `Notifications` and `Cascade` | `Auth`, `Mandats`, `Sondage`, `Envois`, `Sommes` |
| `TresorerieProofs` | theorems about `Don`, `Frais`, `Solde`, `Fonds`, `Echeances`, `Collecte` and `Partage` | those seven, `Sommes` |
| `JournalProofs`, `Sommes` | lemmas: the statements of the journal; sums over finite sets | cited by the proofs of the components |
| `Billetterie` | places and tickets of one event: single registration, cancellation, reopening, scan, prize, transfer | `Journal` |
| `Groupe` | registration of a group, one payment for all, sizes and their stock, edition of the event, offline undoing | hosted with `Billetterie` |
| `Cotisation` | one participation, its payments and their proofs | `Journal` |
| `Echeances` | what may be paid: the pure functions of `avancement.ts` and `echeances.ts` in the life of one contribution | alone |
| `Collecte` | draft, opening, edition and closing of a contribution, and who is called | alone |
| `Partage` | one payment for several people: queues taken together, reservation, carrying of the issue | alone |
| `Commande` | products, variants and orders of `BoutiqueService` and `CommandeService` | `Journal` |
| `Fonds`, `Solde`, `Don`, `Frais` | pockets; balance at the provider; donations; fees | `Fonds` extends `Journal` |
| `Mandats`, `Auth` | who runs the platform; how one gets into an account | alone |
| `Sondage`, `Notifications`, `Cascade` | one poll; reminders, diffusions and settings; the ways of an email | alone |
| `Envois` | what is announced and what leaves, together | `Notifications`, `Cascade` |
| `MC*` | values and symmetry for TLC, and which modules a run lets move | see below |

**Steps.** A handler is a record in a function of slots (`taches`, `requetes`,
`demandes`, ...), with a `pc` naming the statement it is about to run. One action is
what runs between two awaits that touch shared rows. What a handler read earlier is in
its record, so that a stale reading is stale in the model. A free slot may start any
request.

**Scenes.** Components that share no state would only multiply one another's states.
`MCBilletterie`, `MCTresorerie`, `MCVivacite` and `MCPlateforme` extend several of them
and hold a variable `scene`: in a behaviour one component moves, the others stay in the
state they started in. An invariant of a component that does not move is that of its
initial state. The actions of the environment of each component (an account deleted
under a poll, a setting changed under a diffusion) are its own.

**Stale writes.** Many handlers write by id what they decided on an earlier reading. The
models keep these writes, and a history variable marks what they overwrote: `perimes`
(`Billetterie`), `perturbes` (`Commande`), `ecrases` (`Fonds`, `Don`), `meles` (`Partage`),
`croisee` (`Collecte`), `chevauche` (`Auth`), `ecrase` (`Sondage`), `croises`
(`Notifications`). Safety properties say what holds outside these marks: that nothing
else than the overwriting the code allows ever breaks the data. Section 4 lists what each
overwriting does.

**Journal.** A row holds its status, whether the provider's identifier was kept
(`ext`) and which amount is in it: the one announced, the one the treasury received,
or the one first declared. `Appliquer` changes any row whose status differs from the
new one, as the code does.

**Paiement.** `rang` is the creation order, `age` the number of thresholds passed
(20 s, 3 min, 30 min: the code compares an age with nothing else). Rows age in order
of creation. `fapshi` is what the provider knows; `CREATED`/`PENDING` and
`FAILED`/`EXPIRED` are one state each. The cron reads its rows once and treats them
one after the other, a failing provider is skipped, a failing effect stops the pass,
and a restart drops all handlers and interrupts the opening requests.

**Promesse.** The abstract state is the outcome in the journal, whether it was paid, whether
it is settled for good (`sure`), what is about to be announced and what the domain heard.
`Contrat` maps `sure` to "before the expiry delay, and not given up", and what is
about to be announced to the handlers in `repercuter`. Promesse has no handler, no webhook
and no cron: that any number of them implement it is what the refinement says.

**Billetterie, Groupe.** A ticket slot is its code and the reference of its payment. The time
of the event has four values (before the doors, doors open, begun, over), which is all
that registration, scanning, transfers and reopening ask. In `Groupe` a ticket is a pair
of a request and a person, the payment is the request's, and the cuts inside a cancellation
or a reopening, which `Billetterie` has, are one step. `verifierPasDejaInscrit` looks at the latest row of
a person: an active ticket behind a closed one (`Masque`) is not seen, and the history marks its owner.

**Cotisation, Echeances, Collecte, Partage** are four sides of `cotisation.service.ts`, cut
where the code is: the money of one participation (`Du` and the payments count units of the
smallest payment), the schedule, who is called, and the queues of several participations
held at once. `exclusif` is an in-memory queue per key: it is held by a request whose `pc`
is between the first reading and the last write, and nothing else takes it. `Repartir`,
`echeancesPayables`, `montantAutorise` and `verifierTranches` are functions over the schedule;
what may be paid is a set of records, each with its rank, 0 for the whole of what is left (`Totalite`).
`mettreAJour` may change the amount and keep the schedule unchecked, as the code does.

**Commande.** A counter per product and one per variant, an `UPDATE` each; then
`rafraichirStatut` reads the product and saves the columns that differ from what it reads,
which is what TypeORM does. `base` is what the counters would be without orders.

**Fonds, Solde.** Pockets are sums over the registers. Declarations share one queue; issues of
deposits do not take it. In `Solde` a reading is three requests, between which money moves.
**Frais**: rates in thousandths; where the exact result is whole, the floating point one
may be a hair above and rounds to the next franc.

**Mandats, Auth.** Roles are columns recomputed for the people a request touches. Requests of
several statements are cut at each; `MaxActes` bounds how many start. Links have an
address and a type, sessions are the hash kept in the account.

**Sondage, Notifications, Cascade.** A vote is the reading of the poll, then one transaction.
A reminder pass marks, then sends one by one. A diffusion is written in lots, then reads
the settings once and sends in the background. In `Cascade` time is a counter compared
only with the pause; a provider may accept a message and acknowledge it too late.

## 3. Runs

All runs have `CHECK_DEADLOCK FALSE`: slots, references and restarts are bounded, so
that a finished history is a state without successor.

| Run | Bounds | What it shows |
|---|---|---|
| `PaiementSurete` | 2 payments, 2 handlers, 1 restart or failing effect | five safety properties of `Paiement`, and that it implements `Promesse` |
| `Vivacite` | 1 payment, 2 handlers, 1 restart, a pass holds every row; 1 payment and 2 outflows at the provider; 2 people and 2 arrivals for a contribution; 2 crossed lots | `Aboutissements`, `PayeFinitConfirme` |
| `PaiementPanne` (violation) | 1 payment, 2 handlers, 1 restart | a restart between the journal and the effect loses the effect |
| `BilletteriePlaces` | 2 tickets, 2 people, 1 place, 2 requests, until the doors | `CompteJuste`, `BilletPayeAtteste` |
| `BilletterieEntree` | 1 ticket, 2 people, 3 requests, to the end of the event; and 2 formulas for 2 people, one size, one hand-made change | `PorteTenue`; `TaillesTenues`, `UnBilletParPersonne`, `GroupeEntier` |
| `BilletterieSurreservation` (violation) | 3 free tickets, 1 place | a double cancellation sells the last place twice |
| `CotisationSequence` | 3 payments, 2 proofs, 1 request at a time, every operation | balance, status, proofs and credits stay in step through any sequence |
| `CotisationConcurrente` | 3 payments, 2 proofs, 2 requests among pay, prove, accept, settle | credits add up under interleaving |
| `CotisationEngagement` (violation) | 2 payments, 2 requests | a credit during an opening lets more than the rest be engaged |
| `Commande` | 2 orders of 2 and 1 lines, 1 product in 2 variants, 2 requests, 1 hand-made change | stock, payment and cancellation |
| `Tresorerie` | see `Tresorerie.cfg`: 2 declarations out of 2 pockets; 2 payments and 2 outflows; 1 donation; prices up to 150 under two rates; amounts 1..6, 3 instalments; 2 people called; 2 lots | one property per component |
| `Plateforme` | 3 accounts, 2 mandates, 2 posts, 4 requests; 2 accounts, 3 addresses, 3 links, 3 requests; 1 poll, 2 voters, 2 requests of the office; 3 reminders by passes of 2, with 1 move of people and 1 failure, or 1 diffusion, with 2 moves or 1 move and 1 failure; 2 emails, 3 ways | one property per component |

Why the bounds are enough: a race of the code needs two handlers on one row, and the
cron a second row (its batch, its order); three requests on one ticket give a
transfer, a scan and an issue in flight at once. One restart is enough to separate
any two consecutive statements. Two proofs and three payments with `Du = 2` give over-
and under-certified credits, a participation that is paid, undone and paid again.
Amounts up to three times the minimum give rests below, at and above it. An order of two
lines can fail at its second one; two variants make the total differ from each. Two members
give a transfer between pockets, two declarations the race on one. A threshold of 2 with
amounts 1 and 2 puts a gap below and at it. Three people give a mandate an incoming, an outgoing and a
corrected member. Three links give two of one kind and one of another. Three ways and a
pause of 2 in 4 units of time let a way be set aside, come back and be set aside again.
Symmetry is used for safety only, on slots, people and references nothing else orders; not
on the references of `Cotisation`, one of which is the default of an empty proof, and not
in the hosted runs, whose constants other components order.

Liveness is checked on instances of its own (`MCVivacite`), smaller and without symmetry.
There the pass holds every row: when rows without provider identifier fill it the
property does not hold, see section 4.

**Fairness.** Started handlers go on (the event loop runs what is ready); the clock
advances; the cron fires again and again (strong fairness: it needs a free slot of
the model that the real timer does not need); the provider may fail to answer any
number of times but not for ever (strong fairness on `ReponseSur`, `ListerRetraits`).
A provider that repeats a notification not answered 200 is a hypothesis of
`PayeFinitConfirme` itself (and of `RelanceSpec`, under which `PaiementPanne` runs), not
of the others. Nothing is assumed of the payer, of the opening request, or of webhooks
otherwise. In `Solde` credits of confirmed payments arrive, and readings come back. In `Collecte` the hourly pass comes
back and waits in a queue that serves in order; nothing is assumed of the treasury nor
of visitors. In `Partage` a request that holds a queue, or is first for one, goes on;
nothing else.

**What the properties say.**

- `PromesseTenue`: refinement of `Promesse`. `EffetUniqueAvantDelai`, `PayeNonEchoueAvantDelai`,
  `IssueFinaleAvantDelai` stop at the expiry delay, after which the reconciliation itself fails
  a payment still pending. `AccordJournalDomaine` is for runs without failure.
- `PorteTenue`: an entry is never undone (`EntreeDefinitive`) and a transfer overwrites no scan, prize or
  transfer (`TransfertSansEcraser`). `GroupeEntier`: all of a group is registered or none, and the
  counter says so.
- `CreditsExacts`: `SoldeJuste` and `SoldeeSiReglee`, when no request is in flight (`AuRepos`).
  `CreditsProuves`: `PreuveAccordee` and `CreditAtteste`. `EcheancierJuste`: the instalments
  share one line of money, and something is payable whenever something is left.
- `StocksAccordes`: counters, variants, living orders and the catalogue agree.
- `FondsJustes`: pockets cover what is on its way; deposits follow the journal. `ConstatJuste`: nothing
  is noted as gone that did not leave. `DonTenu`: anonymity, and counted iff received. `FraisJustes`:
  the treasury never loses, the payer not more than `Ecart` francs. `AppelsJustes`: called once,
  for the amount shown. `PartageJuste`: a lot is credited to all or to none, and nobody is
  engaged for more than they owe.
- `MandatsJustes`: roles and `finissant` follow posts and mandate. `PlateformeTenue`: a mandate stays under way,
  and corrections leave an administrator. `JetonsJustes`: links once, sessions with their
  credentials. `ScrutinJuste`: counters, one vote, closing, counts hidden from voters. `EnvoisJustes` is
  `NotificationsJustes`, reminders once and in order, emails of what is on the platform, settings obeyed, and `CascadeJuste`, an email
  leaves by the first way in service, once, and a way is aside exactly for its pause.

Where several facts are about one hazard, the run checks their conjunction; each keeps its
name in its module.

## 4. Disagreements met

Three are kept as violation runs (`findings` in `PROJECT.json`). The others below were
seen in counterexamples of the same modules and are recorded here.

Payments:

- `reconciliation.service.ts:34` ("Le prestataire tranche, jamais nous"): the answer is
  read before an await and ECHOUE written after it, possibly over a payment made
  meanwhile.
- `reconciliation.service.ts:191-193` ("ni rendue ni confirmée deux fois"): around the
  expiry delay a row can go ECHOUE, COMPLETE, ECHOUE, and `appliquer` returns true each
  time. In `cotisation` the same alternation, by `abandonnerReglement`, credits twice.
- `transaction.service.ts:204-212`: the pass takes the oldest rows, those without
  provider identifier included; when they fill it, newer payments are never examined.

Tickets:

- `billetterie.service.ts:824` ("Un billet déjà scanné n'est pas annulable"): the status
  is read, the write is by id; 1523-1524 ("sans trace"): a ticket cancelled between the
  reading and `confirmerSiEnAttente` is paid, cancelled and not reported; 756-757: the
  prize of a ticket cancelled in between is handed over; 1465-1467: a person may get a
  second ticket between the check and the reopening.
- `billetterie.service.ts:1818-1840` ("est déjà inscrit(e)"): only the latest row of a person is
  looked at. Register, cancel, register, cancel; the late payment of the first ticket reopens it;
  the third registration looks at the second row, cancelled, and goes through: two active tickets. The
  attempt to prove `UnBilletParPersonne` found it, TLC then confirmed it with three requests (the run
  has two); `croises` marks those people.
- `billetterie.service.ts:1327`: `annulerConfirmationHorsLigne` looks for the code of a
  ticket only, and finds none of a group's, nor a transferred one. A group undone after
  the provider took the payment is answered "billet inconnu".
- `evenement/options.ts:213-219`: a size withdrawn by the office is reopened by the late payment
  of a cancelled ticket that had it.

Contributions:

- `justificatif.service.ts:68` ("valider, refuser et défaire ne se chevauchent pas"):
  only `annulerValidation` takes the queue. 349-350: a proof deposited by reference on an
  on-line payment, refused after that payment succeeded, turns the credited payment into
  ECHOUE.
- `cotisation.service.ts:911-914` and 1628: the failure of an opening, of a giving up, of an expiry or of a
  refusal is written by the id of the payment, over a credit that came meanwhile; the balance keeps it.
- `cotisation.service.ts:704-705`: SOLDEE is written two statements after the increment,
  outside the queue; an undoing in between is overwritten.
- `cotisation.service.ts:218-222` with 1872-1873: a new amount without a schedule keeps
  the old schedule unchecked, and its instalments stay payable (hence `Conforme`).
- `ouvrir`, `mettreAJour` and `clore` write on a status read before: a closed contribution may be
  reopened, and an opening cut by a restart leaves people created and not told.
- two settlements of one lot at once: the `catch` writes ECHOUE unconditionally.

Shop, treasury:

- `boutique.service.ts:434-447`: a product saved whole after a stale reading overwrites sales made
  meanwhile; orders cancelled twice give their stock back twice; a product turned to advance sale
  does not get back what orders hold.
- `solde.service.ts:28-34`: one reading taken across a credit can invent an outflow when the delay
  passed since an earlier gap (`UnEcartNInventeRien` fails).
- `fonds.service.ts:225-227`: `abandonnerDepot` can write ECHOUE over an attested deposit.

Platform:

- the guard of the last administrator is in `administrer` only: taking a post back
  (`bureau.service.ts:201-212`) may leave none (`ResteUnAdministrateur` fails);
  starting a mandate gives ADMIN to a SUPER_ADMIN who holds a post.
- two deletions or activations of mandates at once may leave none under way (`MandatEnCours` is
  checked one request at a time); editing a post does not realign the roles of its holder, nor
  editing the year of a mandate `finissant` (hence `retouches`, `marques`).
- once the year of the mandate under way was edited (`generation.service.ts:116-137`), a mandate of its
  former year may be created and started: those who leave are of the year of the new one, so the
  condition `promotion <> :annee` (`:215`) leaves them ADMIN, where the comment says
  "les sortants retrogrades" (hence `retouches` in `MettreAJourMandat`).
- `jeton.service.ts:30-38`: an old link of verification, followed by a partner, gives back the role
  of a student (`PartenaireReste` fails). Two requests at once on one account let a
  session outlive its credentials, and a refresh token be exchanged twice (hence `chevauche`).
- polls: activating over a closing reopens the poll, two activations invite twice, a vote in flight
  lands after the closing ("Fige le dépouillement"), deleting removes a poll that got votes since its
  reading; the invitation to a campus poll leaves out administrators who may vote; the
  poll itself is answered with its counters, which `sondage.controller.ts` says only the results give.
- reminders: passes that overlap may send one twice (`rappel.service.ts:45-49`), and nothing in `src/`
  creates a reminder. Diffusions to a list do not look at the verification of
  addresses; a failure of the first reading of the background (`notification.service.ts:415`) is
  caught by nobody and stops the process; welcome messages (`auth.service.ts:150`,
  `bureau.service.ts:168`) may be cut by the preference, and their foot
  does not say where: `mail.service.ts:182` takes the others for the only ones that can.
- cascade: an acknowledgement that comes after the time limit makes the next way send the
  message again; a restart loses messages in flight.

## 5. Proofs

`PaiementProofs` proves, for every set of references and handlers, every batch size
and every number of restarts (`ParPassageAssumption` and `MaxPannesAssumption` only):

| Theorem | States |
|---|---|
| `TypeCorrect` | `Spec => []TypeOK` |
| `Invariant` | `Spec => []IInv` |
| `CompleteToujoursAtteste` | `Spec => []CompleteAtteste` |
| `PayeJamaisEchoueAvantDelai` | `Spec => []PayeNonEchoueAvantDelai` |
| `EffetToujoursUniqueAvantDelai` | `Spec => []EffetUniqueAvantDelai` |
| `IssueToujoursFinaleAvantDelai` | `Spec => IssueFinaleAvantDelai` |
| `JournalEtDomaineAccordes` | `Spec => []AccordJournalDomaine` |

`CompleteAtteste` is not inductive: a handler about to write COMPLETE must carry an
answer the provider still stands by (`TacheAttestee`; provider states are final once
settled). `PayeNonEchoueAvantDelai` needs to know where each ECHOUE came from
(`JournalAtteste`). `EffetUniqueAvantDelai` needs the effects in flight counted with
those done: before the delay an effect exists only if the journal and the provider
agree on the issue, one handler carries it at most, and none once the domain heard
(`EffetsSerialises`). `IInv` is their conjunction with `TypeOK`. The proof goes action
by action, grouped: the actions of the opening request and of the world touch no
handler (`DemandePreserve`, `MondePreserve`), beginnings add a handler without effect
(`DebutPreserve`), the steps of a handler are the heart (`EtapePreserve`), a restart
drops effects (`RedemarrerPreserve`). `AccordJournalDomaine` is the converse of `EffetsSerialises` and needs
its own two facts: the provider stands by what the domain heard (`EffetsAttestes`), and, as long as
nothing failed, what the journal decided was heard or is on its way (`RienOublie`).

The same module proves the refinement, `Spec => PromesseTenue` (`PromesseToujoursTenue`), from the same two
assumptions: `InitTient` for the initial states, and for each action the step of the promise it
is, or a stutter (`PasTient`, from `DemandeTient`, `MondeTient`, `EtapeTient`, `DebutTient`,
`RedemarrerTient`). The heart is `AppliquerTient` (a decision of the journal is an outcome the
promise allows) and `RepercuterTient` (what a handler announces was about to be announced). It
needs one invariant more than `IInv`, `DemandeAccordee`: nothing is known of a payment outside the
request that opens it until the row is there.

`BilletterieProofs`: any tickets, people and requests, any capacity.

| Theorem | States |
|---|---|
| `TypeCorrect`, `Invariant` | `[]TypeOK`, `[]IInv` |
| `BilletToujoursAtteste` | `Spec => []BilletPayeAtteste` |
| `PorteToujoursTenue` | `Spec => PorteTenue` |
| `CompteToujoursJuste` | `Spec => []CompteJuste` |

`IInv` adds to the property what requests in flight know (`TacheSincere`: one that carries COMPLETE
got it from the provider, one about to cancel read a ticket not yet at the door) and that a confirmed
ticket has a COMPLETE payment (`ConfirmeRegle`). At the door the property is one of steps:
`PasALaPorte` takes each write of a ticket in turn, and only the unconditional write of a cancellation
overwrites an entry, which the history marks. `CompteJuste` counts, with the tickets, the places that
requests hold in hand (`EnMain`: reserved and not inserted yet, not given back yet, or taken again and not
reopened yet); each step moves one place at most from one side to the other (`UnOccupant`, `UneMain`).
`CompteTenu` adds that finitely many requests hold one, whatever the number of slots.

In the same module, about `Groupe`: any finite sets of requests and of people, any lists, sizes and editions
(`ListesAssumption`: nobody registers nobody; `EditionsAssumption`).

| Theorem | States |
|---|---|
| `InvariantGroupe` | `SpecGroupe => []IInvGroupe` |
| `TaillesToujoursTenues` | `SpecGroupe => []TaillesTenues` |
| `UnBilletToujours` | `SpecGroupe => []UnBilletParPersonne` |
| `GroupeToujoursEntier` | `SpecGroupe => []GroupeEntier` |

None of the three is inductive. A request that fails takes back the rows it wrote, so the invariant says
which they are (`LignesDesDemandes`) and how many places it has taken (`Coherente`), hence that the
counter is the rows that hold a place and what requests hold besides (`CompteGroupe`). A size is checked
against options read earlier, so those are the ones of the event unless the history says that an
edition went by (`OptionsLues`). One ticket each needs one request about to write it each (`UneDemande`).

`CommandeProofs`: any products, orders and baskets (finite grids, `CommandeAssumption`), any
requests.

| Theorem | States |
|---|---|
| `TypeCorrect`, `Invariant` | `[]TypeOKCommande`, `[]IInv` |
| `ToujoursRemisSiRegle` | `SpecCommande => []RemisSiRegle` |
| `AnnulationToujoursDefinitive` | `SpecCommande => AnnulationDefinitive` |
| `InvariantAccord` | `SpecCommande => []AccordInv` |
| `StocksToujoursAccordes` | `SpecCommande => []StocksAccordes` |

The type invariant is not inductive by itself: a request works on a line of the basket of its order,
gives back only lines it took, and so on (`RequetesTypees`). `CreationSeule` says that an order being
created is known to nobody else, `TransitionsPermises` that a transition about to be written is one of
`TRANSITIONS` from the status that was read, `PayeeTient` that a paid order is one the journal attests.

`StocksAccordes` speaks of the instants when no request is in flight; `AccordInv` of all the others.
Per order (`OrdresTiennent`): its creator is alone to know it until it is registered and holds exactly the lines
it has reserved (`CreationInconnue`, `LignesPrises`); a living order holds all its lines; a line of a
dead one is held only while its creator has it or a request is about to give it back (`MortesRendent`), one
request only (`RenduUneFois`), the conditional `UPDATE` having let one cancellation or failure through, which had
read every line (`LignesLues`). Per product (`StocksTiennent`): a movement changes the variant, then the
total, in two statements, so each counter is short of a set of lines of its own (`Prises` for a variant,
`Tenues` for the total), and `Compte` says that counter and set make what it would hold without orders. An
administrator's grid is emptied, filled again and totalled by one request, with no movement between its two
counters (`GrilleTient`); the total is in the table or about to be set there (`TotalTient`); the status is that
of the stock, or a refresh is on its way (`StatutTient`, with `SauvegardesTiennent` for the row that `save` is about
to write). Products written from a stale reading leave the products followed (`Suivis`), which only shrink
(`SuiviDiminue`). Counting uses cardinalities, no recursion. `AccordInv` was model-checked before it was proved,
on the instance of `Commande` and on one with two products and three requests.

`CotisationProofs`: any payments, proofs and requests, any amount due.

| Theorem | Requests | States |
|---|---|---|
| `TypeCorrect` | any | `Spec => []TypeOK` |
| `StatutToujoursAccorde` | any without undoing; or one at a time | `Spec => []SoldeeSiReglee` |
| `CreditToujoursAtteste` | any without refusal nor undoing; or one at a time | `Spec => []CreditAtteste` |
| `CreditsToujoursExacts` | any among pay, settle, prove, submit, accept; or one at a time | `Spec => []CreditsExacts` |
| `CreditsToujoursProuves` | one at a time | `Spec => []CreditsProuves` |
| `CreditToujoursGarde` | as `CreditsToujoursExacts` | `Spec => CreditJamaisEchoue` |

"One at a time" (`UneALaFois`) leaves every operation, in any order and any number; "any" is any number
of slots, whose steps interleave. The hypotheses are about `Operations` and `Taches`, hence about
which requests are sent, never about reachable states, and they are needed: with two slots, one payment
and one proof TLC finds `SoldeeSiReglee` broken by an undoing between `Relire` and `Solder`,
`CreditAtteste` by a refusal that crosses an acceptance of one proof or by an undoing, and `SoldeJuste` by
any one of `rupture` (the provider does not answer at the opening), `abandonner`, `expiration`,
`refuser` and `annuler` added to the operations of `CreditsToujoursExacts` (`SansRetour`): the first four write a
failure over what was credited meanwhile (section 4).

The argument. `Evolue` is what no step takes back; `Cadre` what holds for any requests: a request is at a
step its operation has, on a payment of the right mode (`Placee`), a payment without a row is unknown
everywhere else (`Neuf`), and one request opens it (`UneOuverture`). The status is followed by
`StatutSuivi` (whoever passes the amount due will read it again, unless another did). The balance is
`Equilibre`: the counter plus what requests have credited and not added yet is the sum of the credited
payments, which no request can break as long as no payment is credited twice. Why none is differs:

- concurrently (`ConcurrentInv`), because the journal lets one request only pass from a row that is not
  COMPLETE to one that is, and nothing takes it out again: one request at most is about to credit
  a payment, and it is not credited yet (`JournalSuivi`);
- in sequence (`SequenceInv`), where an undoing does take it out again, because payment, row and proof
  say the same of every payment, but of the one the request is in the middle of, and for that one the
  step the request is at says what differs (`PasOuverture`, `PasIssue`, `PasDecision`, `PasAnnulation`).

`SequenceInv` was model-checked as an invariant on the instance of `CotisationSequence` before it was proved.
`Croisee` (a proof deposited by reference on an on-line payment) is left out of the last two, as in
the properties.

`TresorerieProofs` is about seven components.

- `DonToujoursTenu` (`SpecDon => []DonTenu`), for any set of donations and without any assumption.
  The promise is anonymity kept everywhere (`AnonymatReel`) and a donation counted iff the journal attests
  it (`DonSuitJournal`). `IInvDon` adds that a donation not yet asked for is nowhere (`NeufVide`), that
  nothing says "received" before the journal does (`RecuApresJournal`, which holds because COMPLETE is
  final in the journal of this component), and that what the journal attests is in the
  donation, on its way to it, or written over (`JournalAnnonce`).
- From `FraisAssumption` (rates in thousandths, below 1000), the price asked for covers the price
  whatever it is (`TresorerieToujoursCouverte`) and, when moreover every rate is below 500
  thousandths, it is the least that does, to three francs (`FraisToujoursJustes`: `SpecFrais => []FraisJustes`).
  With a provider that takes half or more, `Ecart` would have to be larger. `ArrondiEncadre` bounds a
  quotient rounded up on whichever side of a whole result the floating point fell; `DevisEncadre`
  bounds one computation by two of them.
- `ConstatToujoursJuste` (`SpecSolde => []ConstatJuste`), from `SoldeAssumption` (whole positive amounts, a
  finite set of withdrawals). A note is written two steps after the balance was read, so the invariant says what a
  reading about to note holds (`ConstatAttendu`): what is missing, with what was noted already, is at most
  what left, unless the reading mixed moments. `ManqueExact` computes it: the movements between the two
  lists cancel out, because withdrawals under way or done are a sum that each movement shares
  between the two (`ActifsPartages`, `CumulEstSomme`).

- `FondsToujoursJustes` (`SpecFonds => []FondsJustes`), from `FondsAssumption` and `TablesAssumption` (finite
  tables). A declaration looks at a pocket, then is recorded: the invariant says that nobody else is in
  the queue and that the pocket still holds the amount (`Provision`), which the issues of deposits, that do
  not queue, keep true because a deposit that is given up only refills a pocket. `Accord` says for each deposit
  what the journal may say of it, and what is on its way to it. Pockets are sums over a bag of movements, over
  deposits, proofs and withdrawals; most of the proof says how each request moves one term of one of them.
- `AppelsToujoursJustes` (`SpecCollecte => []AppelsJustes`), from `CollecteAssumption` (an amount is
  positive, `MONTANT_MINIMAL`). `UnSeulAppel`: who is about to be told has been entered by that request only.
  `MontantTenu`: as long as two requests of the treasury do not meet, amounts read and amounts owed are that
  of the contribution.
- `PartageToujoursJuste` (`SpecPartage => []PartageJuste`), from `PartageAssumption` (lists without
  repetition of people who are numbers, finitely many lots). The queues a lot holds are those of the
  people before its rank in ascending order, and it waits in the next one (`Verrous`); how far it is says
  whose payments it has written (`ReserveDe`); these are in one state, but for the people an issue on its
  way has yet to reach (`Carnet`); from these, the balance of each is the number of lots that paid, and
  the number of lots that engage somebody is at most what they owe, strictly less before one more is written
  (`Comptes`).
- `EcheancierToujoursJuste` (`SpecEcheances => []EcheancierJuste`) and `VersementsBornes`
  (`SpecEcheances => VersementBorne`), from `EcheancesAssumption` (amounts and minimum are positive), for any
  schedule, amounts and number of payments in hand. Nothing is kept from one request to the next but the amounts, so
  the invariant is `TypeOKEcheances` and the difficulty is in the functions. `RepartirSurLaLigne`
  replaces the loop of `calculerAvancement`, where the balance is used up instalment after
  instalment, by the part of each interval that lies below the balance; `CapacitesSomme` adds up
  what each has left, along the schedule; `ParTranchesSomme` carries that sum to the records proposed. What a
  person is let pay is at most one of its terms, or the whole (`VersementTient`).

`PlateformeProofs`, about `Auth`: any accounts, addresses, links, sessions and requests (`AuthAssumption` only).

| Theorem | States |
|---|---|
| `InvariantAuth` | `SpecAuth => []IInvAuth` |
| `JetonsToujoursJustes` | `SpecAuth => []JetonsJustes` |

`JetonsJustes` is four promises. That a link works once holds for any requests at once: `ToujoursAuth` says that
a used link is consumed or went with its account, and the conditional `UPDATE` lets only a link that is
neither through. The other three are promises of requests served one at a time, and the interesting part is
what a single request may assume between its statements (`Fondee`), while links age and accounts are purged
around it. A verified account proved its address because a usable link was sent either to the address of its
account, or, for a change, to the one the account waits for (`BoiteSure`), unless a request is about to
invalidate it (`LienSur`: an account asks for another address before the link to the former one is withdrawn);
a followed link then proves the address the request will write. A session of a verified account is of its
present credentials because each change of them closes it. A token that was exchanged is not that of
its account any more, or the request that exchanges it is about to open the next (`JetonSur`).
`IInvAuth` was model-checked before it was proved, with two requests at once and, one at a time, with six.

About `Mandats`: any accounts, mandates, years, posts and functions of posts, and any number of requests
served one at a time (`Demandes = {q}`, which is how the run `Plateforme` checks it; two at once do break these
promises, section 4).

| Theorem | States |
|---|---|
| `InvariantMandats` | `SpecMandats => []IInvMandats` |
| `MandatsToujoursJustes` | `SpecMandats => []MandatsJustes` |
| `PlateformeToujoursTenue` | `SpecMandats => PlateformeTenue` |

`MandatsJustes` is about the instants between two requests, and is not inductive: a post is written in one
statement, the role it gives three statements later. `RolesSuivis` says that everybody's role follows their posts,
but for the person whose posts the request under way has just changed (`EnAjustement`), and `Exacte` what that
request knows: the role it read is the one of the account, the one it will write is the one the posts give. The
change of mandate takes two further facts: years are unique (`MandatsTenus`), and who holds a post, unless
edited by hand, is of the year of its mandate (`PlacesTenues`). Nobody of the former office is then of the year of
the new one, so the condition `promotion <> :annee` reaches them all. Without the accounts `retouches` sets
apart this is false, as section 4 says. `PlateformeTenue` rests on `Exacte` too: the mandate to be archived or
deleted is still not under way, the one to start still exists, and whoever asked for a correction still
administers when it is written, having not been allowed to give it up. `IInvMandats` was model-checked before it was
proved.

About `Sondage`: any finite sets of voters and options, any bureau requests at once and any number of editions;
what the office may create and edit is typed (`ModelesAssumption`), and the anonymous author is nobody
(`AnonymeAssumption`).

| Theorem | States |
|---|---|
| `ScrutinToujoursJuste` | `SpecSondage => []ScrutinJuste` |

Ballots are numbered in the order they were cast, so that two alike are two. `IInvSondage` adds to the promise what
its steps need: a counter is the number of ballots ever cast, even those that went with their account (`Decomptes`);
the voters between their reading and their transaction passed the checks of the poll as it was (`Isoles`), and after
a closing they are among those it had let in (`Cloture`); whoever saw hidden counts saw them once nobody could
start to vote (`Influence`); what a request of the office read still holds when it writes, unless another one
crossed it (`Ouverture`). That the count by promotion gives each named ballot to one segment is a fact about sets:
a sum of the sizes of the parts is the size of the whole (`Repartition`, by `RecurrenceFinie`).

About `Notifications`: any people, reminders, overlapping passes, lots, requests, failures and restarts
(`NotificationsAssumption`, and a diffusion is not a pass: `EmetteursAssumption`).

| Theorem | States |
|---|---|
| `InvariantNotifications` | `SpecNotifications => []IInvNotifications` |
| `NotificationsToujoursJustes` | `SpecNotifications => []NotificationsJustes` |

The argument follows a reminder through the passes (`RappelSuivi`): outside those two passes had read before
either marked them (`croises`), it is or was in one pass only, because what is marked is not read any more; and once
marked it is announced, in hand, or dropped. The order of dates survives overlapping because the query takes
the oldest: what a pass reads has no older one left that is neither marked nor in the same pass, and this stays
true whatever the others mark (`PassageTenu`, lemma `DusLus`). A diffusion sends only what it wrote
(`DiffusionTenue`), and read the settings after it began, so that whoever had cut the emails by then is in what it
set apart. A pass reads them when it sends, and `ReglagesTenus` says that they are the last accepted, which rests on the
unique index: of two first requests for one person, the second is refused instead of written over the first.

About `Cascade`: any number of ways, messages and restarts (`CascadeAssumption`).

| Theorem | States |
|---|---|
| `CascadeToujoursJuste` | `SpecCascade => []CascadeJuste` |
| `EnvoisToujoursJustes` | `SpecNotifications /\ SpecCascade => []EnvoisJustes` |

While a message is being sent, each way is left to try, has failed it, or was aside when it started, and one of
these only (`VoiesReparties`); the first of those left is then preceded by ways that are excluded, and when
none is left all are. `RecuOuMuet` counts the acceptances.

These three invariants were model-checked before they were proved. The first attempt at `NotificationsJustes`
showed that the promise had been stated too narrowly, true only because the run let a pass take one
reminder: with several, those waiting behind the one being sent were counted neither as announced nor in hand. It
is stated for whole passes now, and the run has three reminders and passes of two.

**Shared lemmas.** `JournalProofs`: what each statement keeps of the types, leaves alone and does to a
status. `Sommes`: sums over finite sets as the models write them (`MapThenSumSet`). The order in which a
sum picks its terms is not fixed, so its value must be shown not to depend on it; the library's induction
on finite sets takes an operator, so `RecurrenceFinie` states it for a set of subsets instead,
proved from the well-foundedness of the naturals on cardinalities. From it: a sum exists
(`SommeExiste`), is unique (`SommeUnique`), and moves with its terms (`SommeRetire`, `SommeChange`,
`SommeFiltre`, `SommesJointes`, `SommeRenommee`). `RecurrenceBornee` does the same for the numbers up to n, which is what
the loops over a schedule take.

**Assumptions.** Those named above, all in the modules that declare the constants and evaluated by TLC:
references and slots are finite sets, the amount due is positive, somebody's ticket is paid or free
(`PayantsAssumption`), a proof is on some payment (`PreuvesAssumption`), and "no value" is not a value.
None bounds an instance.

**Model-checked only.** Liveness and anything under fairness (beyond the prover). The types of the composed runs (`TypeOK...`
of the `MC` modules): the proved invariants type the same variables module by module, without the bounds of the runs. `CreditsExacts` and `CreditJamaisEchoue` with
several requests in flight when one of them takes something back: they do not hold (section 4).

## 6. Hazards

`PROJECT.json` lists 40, with the properties that would catch each. One has no property: the undoing of
an offline confirmation of a group, which the code does not do and the model reproduces.
Two acceptances of a proof are interleaved, an acceptance and a refusal are not: what they
break is known (section 4).

## 7. Not modelled, and the plan

Left out, with the reason in `components`: `document` and `file` (layout of what is already
written; best-effort cleaning), `article`, `annuaire`, `activite`, `tableau-de-bord` (single-row
writes and reads), the rate limiter (one synchronous function), configuration, migrations and
deployment (no behaviour of the running program). Of the modelled components: formatting, pages,
lists, exports, statistics, images, templates, the demonstration gateway, hashing and signature.

Done: the payments, their promise and its refinement; tickets and their places, alone and by groups;
orders and their stock; one participation and its proofs; payments for several, and who is called; donations, fees, pockets and
outflows; accounts, links and sessions; posts, mandates and roles; polls, notifications and the cascade of emails; modelled, checked and proved as said in section 5.

Left: the segments of a poll in the answers of the API, and the lists and exports of `billetterie` and `cotisation`, if
something comes to depend on them.
