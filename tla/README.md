# A verification of cyrus-sasl-xoauth2-idp in TLA+

The repository is a plug-in of the Cyrus SASL library for the XOAUTH2 mechanism.
A client sends the name of a user and a bearer token (a JWT); the server has the
token verified by the scitokens library and decides, from what the token says
and from the options of its configuration file, whether the client may act as
that user. This directory holds TLA+ models of the plug-in, the configurations
with which TLC checks them, and proofs that TLAPS checks.

## The system

| part | source | state | operations |
|---|---|---|---|
| server connection | `xoauth2_server.c` | a context per connection: `state` (0, then 1 after a refusal), `resp` (the message, kept after a refusal), `outbuf` (the challenge) | `mech_new`, `mech_step` (step 1, step 2), `mech_dispose` |
| token inspection | `xoauth2_server.c`, `introspect_token` | only locals; the proxy variables of the process | proxies, `scitoken_deserialize`, issuer, enforcer (audience), scope, user claims, group users |
| wildcard matching | `xoauth2_server.c`, `wildcard_match`, `has_str` | positions of two loops | pure |
| option words | `xoauth2_server.c`, `get_user_claim`, `get_group_user_name` | a cursor into a copy of an option | pure |
| initial response | `xoauth2_client.c`, `build_client_response`; `xoauth2_server.c`, step 1 | none | building, parsing |
| string buffer | `xoauth2_str.c`, and `append_string` of the server | `size`, `len`, `buf` | init, alloc, append, free |
| server options | `xoauth2_server.c`, `get_options`, `plug_init` | one `settings` for the process | reading seven options |
| client connection | `xoauth2_client.c` | a context per connection: `state` 0, 1, 2, and `outbuf` | `mech_new`, `mech_step` (prompts, callbacks, response), `mech_dispose` |
| client configuration | `xoauth2_client.c`, `load_config` | `load_config_initialized`, `load_config_utils`, `load_config_result`, the settings: all global | load once, reset on dispose |
| username claim | `xoauth2_client.c`, `jwt_get_claim_string`; `base64.c` | none | split, decode, look up |
| cJSON | `cJSON.c`, vendored | none | parse one payload |
| entry points | `xoauth2_init.c` | none | hand over to the two `plug_init` |

The application drives each connection through libsasl2, one call at a time. A
client and a server connection only exchange two messages: the initial response
(client to server), and, when the server refuses, a JSON object with the status
401 (server to client), which the client answers with an empty message. All
connections of a process share the settings and, on the client side, the loaded
configuration. The plug-in calls back into libsasl2 (`canon_user`, `getopt`,
`getcallback`, memory) and into scitokens.

What makes each part right, and what is hard about it:

- *server connection*: it succeeds only for a permitted user, whichever of some
  twenty calls fails; a refusal is final; each block of memory is freed once on
  each way out. Hard: eight hand-written ways out of one function, a buffer
  that changes owner, and calls after an error.
- *token inspection*: it grants what the options say and refuses the rest; a
  word that fails does not hide a later one. Hard: three cutters of words with
  different separators, and defaults for fields left out.
- *wildcard matching*: it finds every match although it remembers one star.
- *initial response*: what the client builds is what the server reads, and
  nothing else is taken for a response.
- *the exchange*: success is for the user whom the client's application means,
  and both sides have the same verdict in the end. Hard: the server's refusal is
  a challenge, which the client answers with `SASL_OK`; each side may fail, leave or die
  at any point.
- *string buffer*: it never writes behind its end, though lengths may wrap; a
  failure keeps what is there.
- *server options*: at most 63 issuers, always ended by a NULL; options that
  are not set count as empty; a second reading finds what the first found.
- *client connection*: it sends one response for the user the application or
  the token names, and gives back every prompt it was handed. Hard: the
  interplay of prompts and callbacks over several calls, and errors between.
- *client configuration*: every connection reads the options of a loaded file.
  Hard: threads, `pthread_once`, and a reset by any connection that ends.
- *username claim*: it yields the claim of the payload or nothing, and decodes
  inside its memory. Hard: lengths that are no multiple of four.

## The modules

A text (an option, a message, a claim) is a sequence of symbols; a symbol is a
separator byte or an atom, a run of bytes that no operation looks into. `Text`
holds what several functions do with texts.

| module | models | how |
|---|---|---|
| `Wildcard` | what it means to match a pattern | a *cut* assigns to each pattern character the place in the string up to which it and those before account for the string; a string matches when a cut of all of it exists |
| `WildcardMatch` | `wildcard_match` | one action per turn of the two loops; `i`, `j`, `star_pat`, `star_str` are the C variables |
| `Text` | `DELIMITER`, `SEPARATOR`, C strings, words, `get_user_claim`, `get_group_user_name` | operators |
| `InitialResponse` | `build_client_response` and the parser of step 1 | operators `Build`, `Parse`, `Bearer`, and `Asks`, what step 1 takes from a parsed message; next to them the grammar of the message, without scanning (`IsResponse`), and what a message says by it (`Said`) |
| `StrBuf` | `xoauth2_str.c`, and `append_string` | one action per branch; lengths are unsigned and wrap behind `UMax` |
| `ServerMech` | the server connection with the token inspection | one action per call of step 1 and of `introspect_token`, and for its failure; see below |
| `JwtClaim` | `jwt_get_claim_string`, and `b64_decode` of `base64.c` | one action per turn of the decoder's loop, over real bytes; see below |
| `ServerOptions` | `plug_init` and `get_options` of the server | one action per turn of the `strtok` loop; `table` is the text the option table owns, `written` what it was |
| `ClientMech` | the client connection | one action per source of the name and of the token, per call of step 1, and for its failure; see below |
| `ClientConfig` | `load_config`, `pthread_once`, `get_options` and the globals of the client side | one action per access of a thread to a global; see below |
| `ServerRole` | what a server connection promises to the other side | an abstraction of `ServerMech`: a request, a verdict, one answer per call |
| `ClientRole` | what a client connection promises to the other side | an abstraction of `ClientMech` |
| `Exchange` | a client and a server connection and the applications between them | composes `ClientRole` and `ServerRole`; see below |
| `Authentication` | what an exchange is for | the abstract specification: a wish, one verdict, and the client that learns it |

`ServerMech` extends `Wildcard`, `Text` and `InitialResponse` and uses their
operators where the code calls the functions: `Matches` stands for
`wildcard_match`, which is what the proof about `WildcardMatch` allows.

In `ServerMech`, `state`, `saved` (does `context->resp.buf` point to a block?)
and `outbuf` are the context; `pc` is the call step 1 is about to make, `"idle"`
between two calls of the application and `"aborted"` after undefined behaviour
that ended the process. `req` is what was parsed out of the message, `cursor`
the place in the option being read, `canon` the user that `canon_user` put into
`oparams`, `ret` and `serverout` what the last call handed back. `heap`, `lost`
and `misfreed` keep account of blocks by name; each name stands for one pointer
variable. The scitokens library is external: a token is a record of what its
claims say and whether it is genuine; deserializing succeeds for a genuine token
of a listed issuer, and the enforcer passes a token for one of the audiences.
What the library does with an empty list of issuers is not modelled:
`SettingOK` asks for one issuer.
`faults` says which calls may also fail for reasons of their own; it is one of
`FaultSets` and does not change.

`ClientMech` extends `InitialResponse`. `prompts` is what `*prompt_need` asks for
and `wanted` what this call has found nobody to answer; `place` says whether the
application passes a place for prompts at all. `cb` and `answers` are the
application and its user, which do not change in the life of a connection: a
callback gives a text, fails, has to be answered by the user, or reports an
error. The application that got prompts fills them in and passes them to the
next call. `Claims` is what `jwt_get_claim_string` finds in a token and `Configs`
what loading the configuration may give; both are parameters here.
`heap`, `lost`, `misfreed` and `faults` are as in `ServerMech`.

In `JwtClaim` a text is a sequence of bytes, because positions and bits are what is
at stake. `first`, `second`, `len`, `dlen` and `i` are the C variables; `s` stands for
`b64_decode`'s array `s` and its counter `j`, `out` for what was written to `payload`
and its length for `k`. What lies behind the terminator of a token decodes to
anything. cJSON is a parameter: `Docs` says which byte sequences are objects and
what their claim is; none is empty, has a zero byte or begins another. `IsBase64Url` says by its bits, not by an algorithm, what the
encoding of a payload is.

`ClientConfig` has what connections share. `once` is
`load_config_initialized`, with the three values it takes inside `pthread_once`;
`load_utils` and `load_result` are `load_config_utils` and `load_config_result`;
`table` is what `sasl_config_init` has read and `user_claim` the pointer into it
that `settings` keeps. A thread is at `pc[t]`, between two accesses to a global;
`outcome[t]` is what its step found. A step that comes upon memory that was freed
adds it to `stale`. `apart` says whether the application disposes of no
connection while another is in a step: the plug-in has no lock, so an application
with threads has to see to it. `fails` lets `load_config` fail before it looks
for a file. Both values of each, and all layouts of files over the search path,
are initial states.

The models are joined in two levels of refinement:

    ServerMech  =>  ServerRole  \
                                  Exchange  =>  Authentication
    ClientMech  =>  ClientRole  /

`ServerMech` and `ClientMech` implement the two roles (their property `KeepsRole`:
`Role!Spec`, with `phase` computed from `pc` and `state`). A role keeps what the
other side and the application can see: the phase of the connection, the
request or the response, the user in `oparams`, the answer of the last call. It says whether
calls may fail (`faulty`, `short`), and what follows from that: a refusal of
anything, or, on the client, a response with part of an earlier one in front.
`permitted` is what the options say of the request; where the failure of a call counts
as success (disagreement 1) it may be anything for the better, so `Exchange`
is about a server whose libraries report their failures.

`Exchange` puts one of each into its variables and adds what is between them:
`toServer` and `toClient` hold what was sent, `taken` and `read` how much of it
has arrived. The applications, which are external, pass on what a step hands out and tell the other
side how it ended (`Outcome`), as protocols with SASL do: `SASL_CONTINUE` is a
challenge, everything else success or failure. `foreign` puts another client in
the place of the plug-in's, which sends any message of `Foreign` and answers the
challenge with anything. Either side may leave at any time, fail to open, or die by undefined
behaviour. `Refines` maps the exchange to `Authentication`: the wish is what the
application means, or what another client's message says by the grammar; the
verdict is what the server has said, and what is told is what the client has
read of it.

In `ServerMech`, `env` is the environment of the process, and `OtherSetenv` a
`setenv` of another connection's thread: it sets a proxy variable that is not
set, at any time and in the order of the code, to the value of the same option.

Proofs are in `WildcardMatch_proofs`, `StrBuf_proofs`, `ServerMech_proofs`,
`ServerOptions_proofs`, `ClientMech_proofs`, `JwtClaim_proofs`, `ClientConfig_proofs`
and `Exchange_proofs`.
The modules whose names begin with `MC` give instances for TLC.

## What the runs check

| run | question | bounds, and why they are enough |
|---|---|---|
| `wildcard_match` | `Decides`: the loop answers `Matches`. `Answers`: it ends. `IInv`: the invariant of the proof | two letters and both wildcards, up to four characters in each: two stars with a letter between them and a string in which the first match of that letter is the wrong one fit |
| `str_buf` | `NoOverrun`, `FailureKeepsText`, `CallReturns`, and the invariant `IInv` | `UMax = 63`, the least at which a buffer grows several times and each addition wraps; the proof covers every value |
| `server_mech` | `FailsClosed` and `RefusesForbidden` compare the step with `Permitted`, the options as `doc/configuration.md` describes them, the first whatever fails; `OneObject`, `StepReturns`; `AbortsExplained`: where a step may end the process and after which checks, see below; `Ownership` and `MemInv`, the account of memory; `EnvSettles`: no connection changes a proxy variable while another's library reads them; `KeepsRole`: the connection implements `ServerRole` | six option files, one with a group entry that is too short and one that lets no scope pass; seven tokens, one without a scope, and one that is none, four users, five odd messages; each check fails and succeeds, and succeeds at a first and at a later word. No failure, the two failures that are answered with `0`, or all others. One proxy variable is set before, and other threads set them at any time. Two calls per context (one that fails and one that refuses, or a refusal and the call after it), and any number of contexts |
| `server_options` | `ReadsIssuers`: the first reading gives the words of the option in order, up to the limit. `FindsNoOthers`: a later reading finds no others and none cut in two. `InitReturns` | every text of up to five symbols (two letters, blank, tab), with three words in the longest; a limit of three leaves room for two, so that lists of less, as many and more occur. Two calls of `plug_init`, with `strdup` failing at will |
| `client_mech` | `SendsWhatIsMeant`: what is sent is one message for the user and the token that the application means, and `canon_user` saw that user, said without the order of calls. `AsksOnce`: a call with answers asks nothing. `PromptsFreed`, `InteractMeansPrompts`: what is allocated and who points to it. `KeepsRole`: the connection implements `ClientRole` | five kinds of callback each for the name and for the token, eight users, four kinds of token; with `canon_user` failing at will, and with and without failing allocations. Four calls: prompts, a failure of `canon_user`, prompts again and the response |
| `client_config` | `FindsOwnFile`: each step finds what the first file for its service says. `NothingStale`: nothing that was freed is used. `OneLoads`. `StepsEnd`: every step and every disposal comes to its end, disposals at any time and failing loads included | two threads, so that one loads with the utils of the other while that waits; two directories, with no file, one that cannot be parsed, one without and one with the option; four steps that need the claim, and any number of connections |
| `jwt_claim` | `WritesInside`, `ReadsInside`: the decoder's memory. `RetrievesCommon`: the claim is found in every token whose payload base64 and base64url write alike | objects with names of up to four letters, so that the length of the payload has each remainder and `~` stands at each place of a group; no signature, a short and a longer one; twelve malformed tokens |
| `exchange` | `ReadsResponses`: what the server works for is what the grammar says of the message, whoever sent it. `SameUser`: success is for the user whom the client's application means, in both sides' `oparams`. `OKMeansRefused`: the client's `SASL_OK` from step 2 means that the server has refused. `Refines`: `Authentication`. `ExchangeEnds`: whoever sent something hears how it ended | four wishes: two tokens of one user, no name, blanks inside name and token. Another client sends every response of ours with one symbol deleted, replaced or put in, and one of them with two: a response has three separators, so that each is missing, doubled or displaced, alone and in pairs. It answers the challenge with nothing and with a response that would be accepted. Where memory was short before, ours sends a response behind each beginning of one |
| `server_error_return` | a disagreement: `AcceptsPermitted` fails | see below |
| `server_no_scope` | a disagreement: `NeverAborts` fails | see below |
| `client_services` | a disagreement: `FindsOwnFile` fails | see below |
| `jwt_url_letters` | a disagreement: `RetrievesClaim` fails | see below |

There are four places where undefined behaviour may end the server's process: a step
without input (`NoInput`, at `xoauth2_server.c:634`), the unchecked allocation of the
audience list (`AudListFails`, `:281`), the missing scope (`GetScopeAborts`, `:337`) and a
group entry that is too short (`TryGroupUserAborts`, `:412`). The run reaches each of
them. `AbortsExplained` says that there is no fifth, and what has to be true at each,
in terms of the options and not of the code: a message can get the process that far only
with a verified token; at the scope the token is for this server besides; and at
a short entry its scope is granted, while no claim and no entry in front of the short one
grants access. So an entry that is too short does no harm behind one that grants, and
nobody without a token of a listed issuer can end the process. The blocks that are still
allocated tell the places apart, so that a fault at one place does not excuse
another. `NeverAborts`, which excuses everything but a missing scope, is only there for
disagreement 2.
`OneObject` leaves out failing allocations. With them it does not hold: a refusal that
runs out of memory leaves part of the object in `outbuf` (`RefuseFails`), and a later call
appends to it. The run takes these steps too; `FailsClosed`, `Ownership` and
`MemInv` are shown across them. `RefusesForbidden` is about runs in which nothing
fails: a failure refuses.
`SendsWhatIsMeant` leaves out failing allocations for the same reason: part of a
response stays in `outbuf` (`RespondFails`) and the next call appends to it.
`NothingStale`, `OneLoads` and `FindsOwnFile` need `apart`; without it a disposal
between `pthread_once` and the copy of the option frees what is copied.
`ServerOptions` has its `TypeOK` too, which its run does not check: `ReadsIssuers`
says more of the same variables; `TypeCorrect` of its proofs shows it.
Only the run of `ClientConfig` and that of `StrBuf` check deadlock: connections come
and go for ever, and so do calls. Elsewhere the process may have ended, the function
have returned, the number of calls be used up, or the exchange be over.

Four disagreements between the code and what the repository says of it:

1. `server_error_return`: when the issuer claim cannot be read, or the enforcer
   cannot be created, `introspect_token` returns `0`, which is `SASL_OK`
   (`xoauth2_server.c:256` and `:311`); the step succeeds without any check of
   audience, scope or user.
2. `server_no_scope`: for a token without a scope claim, the code frees
   `scope_claim`, which was never set (`xoauth2_server.c:337`).
3. `client_services`: the configuration is loaded once for the process
   (`xoauth2_client.c:519`), with the name of the service of whichever connection
   came first; the document names one file for each service. The README of the
   repository (`README.md:58`) names another file, `-client.conf`; the code
   opens `{service}.conf`, as the document says.

4. `jwt_url_letters`: the decoder takes `-` and `_` for zeros (`base64.c:37`), but
   JWTs are written in base64url, where they stand for 62 and 63. Where a payload
   has such a letter (`~`, `?` or `>` at every third place, or letters beyond ASCII),
   a byte of it changes: the name `@@~` is read as `@@@`, or the object cannot be
   parsed.

Two observations without a run. `xoauth2_aud` is cut at spaces only
(`xoauth2_server.c:269`), while the document says white space and the other lists are
cut at tabs too: with a tab between two audiences `RefusesForbidden` does not hold.
And `strtok` writes zero bytes into the text that
`getopt` hands out (`xoauth2_server.c:990`). A process that initialises the
library again, with a table of options that has outlived the first time (an
application's own `getopt`), finds one issuer where the configuration lists
several; `ServerOptions` has this behaviour, and `FindsNoOthers` says what still
holds then.

### Fairness

`FairSpec` adds weak fairness of the steps inside a call: `Step1` in
`ServerMech`, `Work` in `StrBuf`, `Next` in `WildcardMatch`, `GetIssuers` in
`ServerOptions`, and in `ClientConfig` the `Step` of each thread: threads are
scheduled, and one that waits in `pthread_once` has no step until it may go on.
No failure is ever counted on (`LoadConfigFails` is not among them). This is sequential
C code that otherwise waits for nothing: once called, it goes on (the calls into
the libraries are assumed to return). Nothing is assumed of the application,
which need not call anything.

In `Exchange`, `FairSpec` has weak fairness of `ServerStarts`, `ServerTakes`,
`ServerWorks`, `ClientTakes` and `ForeignTakes`: a message that was sent arrives and
is passed on, a step that was called returns (`StepReturns` of `ServerMech` is why),
and an outcome that was sent is read. Nobody has to send a first message, to stay, or
to die. `ExchangeEnds` says what may come instead of an outcome: the server's process
has died, or the server could not be opened or has left after its challenge, or the
client has left.

## What is proved

All theorems hold for all values of the constants, under the assumptions named
in the modules (`WildcardAssumption`, `MatchAssumption`, `UMaxAssumption`,
`ServerAssumption`, `OptionsAssumption`, `NulIsString`, `ClientAssumption`,
`JwtAssumption`, `ConfigAssumption`, `ExchangeAssumption`), which say what kinds of
values the constants are: `NulIsString`, for one, that the zero byte is a symbol like
the others. Two say more. That of `JwtClaim`: an object is not empty, has no zero byte,
and is not the beginning of another, as it is over with its last brace. That of
`Exchange`: users and tokens that an application means are `Clean`, that
is, without the separators of the message, and a token is there and does not begin with a
blank. What another client sends is any sequence of symbols.

- `WildcardMatch_proofs`: `TypeCorrect`; `LoopInvariant`, `Spec => []IInv`;
  `DecidesMatches`, `Spec => []Decides`. The invariant has three parts: where
  the positions stand relative to the last star (`Anchored`), that what was
  consumed can be cut (`Sound`), and that every cut of the whole string agrees
  with the positions up to the last star (`Complete`). The last one says why it
  is right to forget the earlier stars: the text between two stars is always
  placed as early as it can be, and any cut can be changed to place it there.
- `StrBuf_proofs`: `BufferInvariant`, `NeverOverrun`, `FailureKeeps`. `NoOverrun`
  is not inductive; `IInv` adds what a pending call asked for (`Demand`), that
  it did not wrap, and that the buffer has room for it when it writes.
- `ServerMech_proofs`: `TypeCorrect`; `MemoryInvariant`, from which `BlocksOwned`
  and `RefusedForGood` follow, with all faults; `ChecksInvariant` and
  `OnlyPermitted`; `EnvSettled`. `MemInv` says which blocks are allocated at each call
  (`Held`), which `Ownership`, speaking only of what is between two calls, does
  not. `RefusedForGood` (`RefusalIsFinal`: no call after the challenge succeeds) has
  no run of its own: `KeepsRole` says it too. `CheckInv` says what each check has established, in the terms of the
  code; lemmas about words and bars (`UserClaimGrants`, `GroupUserGrants` and
  those below them) then show that what the code takes for a grant is one in
  the sense of `Permitted`.
  `FailsClosed`, and `CheckInv` where it speaks of success, carry `ErrorsReported`: the two calls whose failure
  returns `0` do not fail; disagreement 1 shows that it is needed. `OnlyPermitted`
  also assumes `SpacedAuds`: no tab in `xoauth2_aud`. That is not needed for soundness of the decision, but a list
  that is cut differently has different words, and the theorem compares words.
  `EnvSettled` needs `EnvInv`: when the library comes to read them, every variable
  that has an option is set, by this thread or another, and `setenv` without overwriting
  changes none that is set.
  `ChallengeIsOneObject` is `Spec => []OneObject`. Its invariant, `OutInv`, is about the
  memory of the context: `outbuf` is empty as long as `state` is 0, and only a refusal,
  which sets `state`, writes to it. `EachAbortExplained` is `Spec => []AbortsExplained`, with
  all faults. Nothing happens after an abort, so the proof is about the four steps that
  end the process (`AbortingSteps`): `CheckInv` gives what was checked before each,
  `RefuseInv` that the words the loops have passed over were no grants, `MemInv` which
  blocks are there. Lemmas take this from the code to the options: an entry that
  has no issuer for the code has fewer than two bars (`NoIssuerIsShort`,
  `TwoBarsGiveIssuer`), the entries behind the cursor are those in front of the one it
  comes to (`PassedBefore`), and no grant was overlooked (`NoClaimGrants`, `NoGroupGrants`).
  It assumes `SpacedAuds` and `BarlessClaims`, which the two theorems
  about the decision assume as well.
  `OnlyForbidden`, `Spec => []RefusesForbidden`, the other half
  of the decision, and `RoleKept`, the refinement. `RefuseInv` says what the two
  loops over the options have passed over: each word behind the cursor grants
  nothing (`NoClaim`, `NoGroup`; a claim that cannot be read says nothing). With `Passed`, that the words behind the cursor and the one
  at it are all words up to there, it follows at the end of the loops that no word grants
  anything. `OnlyForbidden` assumes `SpacedAuds` and `BarlessClaims`: a token's
  claims have no `|` in their names, as an option could not name such a claim.
  `RoleKept` needs the four invariants before it: that a success is permitted is
  `CheckInv`, that a refusal is not, or is a fault's, is `RefuseInv`.
- `ServerOptions_proofs`: `TypeCorrect`; `StrtokInvariant`, `Spec => []StrtokInv`, and
  from it `IssuersRead` (`ReadsIssuers`) and `NoOtherIssuers` (`FindsNoOthers`), for
  texts of any length, any limit and any number of initialisations. The difficulty is
  that `strtok` cuts the text that it reads. `TableInv` says that zero bytes replace
  blanks and nothing else; `Reading` that in the first pass what is ahead
  is still as the configuration has it, what is behind has a cut behind each word, and
  the list has all words begun so far or is full; `Rereading` that in a later pass
  the first cut ends what `strtok` sees, so that it finds the first word again and
  nothing else; `EntriesInOrder` that the n-th entry is the n-th word, which is
  `FindsNoOthers` with the reason for each `NULL`. `OptionsAssumption` says that the
  texts in the table are C strings. TLC found no state of `server_options` that violates `StrtokInv`.
- `ClientMech_proofs`: `TypeCorrect`; `PromptsOwned`, `PromptsHandedOut`,
  `AskedOnce` and `MeantIsSent`, from three inductive invariants that stand at
  the end of `ClientMech`. `MemInv` extends the account of memory to the inside of
  a step. `AskInv` ties the prompts that the application holds to the callbacks
  that leave something to the user: a step has prompts for all of it or for none
  of it. `NameInv` says what each part of step 1 has found; with `AskInv`, that an
  answer is taken only where the callback left it to the user. TLC found no state
  that violates them in the instance of `client_mech`. `MeantIsSent` speaks of
  lives in which memory is not short, the others of all. `RoleKept` is the
  refinement: the end of each step is one step of `ClientRole`, the calls before it
  stutter, and `NameInv` gives that the name in `oparams` is the one sent.

- `JwtClaim_proofs`: `TypeCorrect`, `NeverWritesBehind`, `NeverReadsBehind`, for every
  token, well-formed or not. `WritesInside` is not inductive; `DecodeInv` adds that at
  most three bytes were written for four characters read, that the memory has
  three quarters of the extended length, and how far the extension goes.
  `ClaimRetrieved` is `Spec => []RetrievesCommon`. `RetrieveInv` says what the decoder
  has at each turn: the whole groups within the payload have given the bytes of the
  object, and the group that reaches beyond the payload, when there is one, the rest of
  them and then a zero. The argument starts with bits: a byte is eight
  of them and a letter six (`ByteBits`, `SextetBits`), three bytes are given by four
  letters (`GroupOfLetters`, `OneGroupMore`), and `IsBase64Url` fixes each bit of each
  letter. In the group that reaches beyond the payload, the bits behind the object's last
  byte are zeros, those of the payload's last letter because `IsBase64Url` asks for
  them and the dot because it decodes to zero (`SextetIs`), so that a zero byte stands
  behind the object whatever the letters of the signature are (`EndDecoded`). What `cJSON_Parse`
  reads as a C string then begins with the object and, no object being the beginning of another,
  with no other one. TLC found no state of `jwt_claim` that violates it.

- `ClientConfig_proofs`: `TypeCorrect`, `LoadsAlone`, `UsesNothingStale` and
  `OwnFileFound`, for any number of threads. `LockInv` says that `pthread_once` works as a lock as long as nobody
  disposes during a step (`apart`): a thread that loads is alone and the flag says
  so, a thread that is past it finds it done, and one that disposes is alone
  altogether, so that arming it again cannot let a second one in. From it, nothing
  that is used was freed. `FileInv` carries the search: the directories behind
  `dir` have no file, and what was loaded is what each thread would have loaded,
  unless somebody is between the two writes of a disposal. `OwnFileFound` assumes
  that all connections are for one service (`OneServiceForAll`); disagreement 3
  shows that it is needed.

- `Exchange_proofs`: `EachIsRead`, `UserIsShared`, `OKIsRefusal` and `Authenticates`,
  from `Invariant`. The argument has three parts. First the messages, of any length:
  each scan of the parser stops at the first place of its kind (`ParseScans`), a
  message that the parser takes can be cut where the scans have stopped
  (`CompleteIsCut`), and any cut of the grammar is that one (`CutIsScanned`), so
  that `ParserIsGrammar`: `Asks(Parse(m)) = Said(m)`; and the grammar finds in what
  the client builds for a clean wish that wish and no other (`BuiltSaysWish`).
  Second the turns: `TurnInv` says who may speak when (a second message answers
  the challenge, and a server that is ready has answered all it took), and
  `RequestInv` that what the server works for, or has accepted, is what the first
  message asked for. Third the refinement, action by action: the first word of the
  server is the verdict (`FirstReply`), the second one says nothing new
  (`SecondReply`), and what the client reads is the one (`Learns`).

Only model-checked: what needs fairness (`Answers`, `CallReturns`, `StepReturns`,
`InitReturns`, `StepsEnd`, `ExchangeEnds`), which is out of the reach of the proof
system. Every other property of a passing run is the statement of a theorem.

## What is not modelled, and why

- Verifying signatures, fetching keys: the scitokens library, external.
- `canon_user`: external; it stores the user it is given, or fails.
- Logging and error texts (`SASL_log`, `SASL_seterror`), and the wording of the
  JSON object: its bounds are the matter of `StrBuf`, its number and owner that
  of `ServerMech`.
- Lengths beyond memory: a text of `UINT_MAX` bytes. `append_string` doubles the
  length without looking for a wrap, but what it is given is short: the status, the
  token type, six bytes when it gets there, and an option. `StrBuf` gives it strings
  that fit.
- A second `plug_init` with other options: `get_options` leaves `proxy` and `no_proxy`
  as they were when they are no longer set (`xoauth2_server.c:1007-1019`), and the copies
  of the issuers from the first time are not freed. In `ServerOptions` the options do
  not change between two initialisations, and the memory of the copies is left out.
- cJSON running out of memory in the middle of a payload, which makes a claim count as
  absent. Where `jwt_get_claim_string` itself finds no memory, `AllocateFails` and `LookupAborts`
  of `JwtClaim`, and `GetClaimAborts` of `ClientMech`, end the process.
- Bytes above the separators: `strncasecmp` and letters inside atoms.
- cJSON (vendored), the entry points, packaging.

## Plan

Done, in this order: the wildcard loop, the buffer, the server connection, the
options, the client connection, its configuration and the claim; the environment
that server connections share; the two roles, the exchange and its abstract
specification; the proofs above, the two levels of refinement among them.

Left: every safety property that a run checks is proved. What may still be added are
stronger forms of some of them: what the client does with a `NULL` from
`cJSON_GetStringValue` (`LookupAborts`), once the document says what it should do; and
the wording of the JSON object of a challenge, which `StrBuf` and `ServerMech` leave out.
