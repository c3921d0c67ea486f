# gtasks2ical: a TLA+ verification project

gtasks2ical is a command line program in C that logs in to Gmail the way a
browser would, approves itself for the Google Tasks API with OAuth2, reads the
user's tasks, and is meant to merge them with the todos of an iCalendar file.
The code is work in progress: `main` logs in, gets its tokens, reads one task
and exits; reading whole lists, merging and iCalendar are written but not yet
called from `main`. This directory holds TLA+ modules translated from
`src/src/*.c`, TLC configurations that check them on small instances, and TLAPS
proofs for any size.

## 1. The system

The program has one thread and keeps nothing on disk. It talks to Google with
one CURL easy handle that carries the cookies of the login from request to
request. Nothing in it runs concurrently; what it has to cope with is

- replies: late, lost, cut short, or another page than the one hoped for;
- other clients of the same account, which edit a task list between two pages;
- state that outlives a function: the options of the CURL handle, its cookies,
  `optind`, the permuted `argv`, `global_config`, the recursion that holds the
  pages of a list;
- C: a NULL reply, a freed option, a list that points into freed components.

| Component | Source | State it keeps | Operations | Interacts with | What makes it correct |
|---|---|---|---|---|---|
| Main program | `gtasks2ical.c` | `global_config`, handle, `gmail_login`, `access_code` | `main` | everything | steps in order, each only after the one before succeeded; ends |
| Configuration | `initializeconfig.c` | `configuration_t`, `optind`, `argv` | `initialize_configuration`: command line, three files, environment, command line again | read by all | precedence; two passes equal one reading; credentials of one source |
| Authorization | `oauth2-google.c` | `user_code`, `access_code` | `login_to_gmail`, `obtain_device_code`, `obtain_access_code`, `authorize_application` | HTML forms, HTTP transfer, JSON replies | a login is real; the password and the code go where they belong; tokens are Google's |
| HTML forms | `oauth2-google.c`, `postform.c` | a page's forms | `get_forms` and its tree walks, `find_form`, `modify_form`, posting | libtidy, libxml2, `curl_formadd` | every form and input of the page once; right form, right inputs, order kept |
| HTTP transfer | `postform.c`, `oauth2-google.c`, `gtasks.c` | options of the handle, reply buffer | `read_url`, `post_form`, `send_gtasks_data`, `receive_curl_response` | libcurl | one request leaves nothing behind for the next; the buffer is the body |
| JSON replies | `postform.c`, `gtasks.c` | none | `decode_json_reply`, `decode_json_foreach_wrapper`, the decoding of a task's members | json-glib | each member in its own field, in any order; copies that outlive the reply |
| Tasks API client | `gtasks.c` | the recursion's pages | `get_gtasks_lists`, `get_specified_gtasks_list`, `get_all_list_tasks`, `get_specified_task` | the Tasks API | an undisturbed read is the list; an error only cuts it |
| Merge | `merge.c` | four result collections | `merge_tasks` and its two tree walks; helpers for new tasks | GLib trees, Tasks API client | every task in exactly one collection; a task created from a Google task holds what the reply said |
| iCalendar file | `icalendar.c` | component tree | `read_vtodo_from_ical_file` | libical | the todos of the files, complete and in order; components outlive the list |
| Old code | `old-code.c` | | none, inside `#if 0` | | |

The hard behaviours are listed with their lines in `PROJECT.json` under
"hazards", with the property that would notice each going wrong or a note on
why none does.

## 2. The modules

| Module | Models | One step is |
|---|---|---|
| `Configuration` | `initialize_configuration` and all it calls | one option, one file, the end of a pass |
| `HttpTransfer` | the CURL handle across requests, the write callback | a request, a callback, the end of a transfer |
| `HtmlTree` | `get_forms` and the two recursive walks over the tree of a page, as operators | (operators) |
| `HtmlForms` | search, update and posting of forms, as operators | (operators) |
| `LoginPage` | what `login_to_gmail` does with one page; composes `HtmlTree` and `HtmlForms` | a stage: tidy, read the forms, find, fill in, post |
| `Session` | abstract: what the program promises to the account | log in, get a token, read, end |
| `Authorization` | `main` behind its configuration, login and authorization; uses `HtmlForms`, refines `Session` | the code from one reply to the next request; one answer of Google |
| `Gtasks2ical` | the whole of `main`: `Configuration`, then `Authorization` with what it left | a step of either |
| `TaskFetch` | the Tasks API client and a list others edit | a request, a reply, one return of the recursion, an edit |
| `UnifiedTask` | the data of a task: from the members of a JSON object to `gtask_t` and on to `unified_task_t`, as operators | (operators; `TaskSources` uses them) |
| `ICalFile` | `read_vtodo_from_ical_file`, file after file | an opened file, a turn of either loop, the end of a file |
| `TaskSources` | where the two sides of a merge come from: a reply decoded into a task with `UnifiedTask`, or files read with `ICalFile` | a member decoded, the parser released, the unified task created; a step of `ICalFile` |
| `MergeTasks` | `merge_tasks` | one callback of a tree walk |
| `AuthorizationProofs`, `ConfigurationProofs`, `Gtasks2icalProofs`, `HttpTransferProofs`, `LoginPageProofs`, `MergeTasksProofs`, `TaskFetchProofs`, `TaskSourcesProofs` | | theorems and their proofs |
| `MC...` | | values of the constants for TLC |

Definitions have the names of the C functions and variables they translate;
`PROJECT.json` "map" gives the lines of each. Operators marked "Mutant" are
faulty variants of the definition after them, one for each way a property is
expected to fail; no specification uses them.

### Configuration

`rest` is `argv[optind..]`; `options` and `arguments` are what GNU
`getopt_long` has sorted out so far, and `argv` becomes `options \o arguments`
when it returns -1 (`POSIXLY_CORRECT` is taken to be unset). An option is a
step: `decode_flag`, `decode_task`, `decode_config`, `decode_error`,
`print_and_exit`. The word stored for `-t` and `-c` is `ArgvOptind`, the word
after the argument, as lines 252 and 258 have it. The contents of a file and
of the environment variable are chosen when they are read: each is read once.
`first_pass_decoded` is the reset between the passes, `files_applied` reads the
environment and starts the second pass. `pc = "returned"` and `success` are
the return value, which `main` ignores. A file without any group ends the
process (`file_without_group`), `keys` being NULL at line 364. The reset between
the passes gives the list of `-t` words to `g_free`, which did not allocate it:
`destroy_configuration` lets the process end there, `first_pass_decoded` lets it
go on, since which one happens depends on how GLib was built.

### HttpTransfer

`curl` holds the options a caller can leave on the handle: three flags and
three pointers, a pointer being the number of the request that owns the memory
(0 for none). `live` is the memory that is still allocated. `Begin` is the
code of a function up to `curl_easy_perform`, `Deliver` one call of
`receive_curl_response` with any part of the body, `EndTransfer` the end or the
failure of the transfer, `Return` the clean-up with `curl_easy_reset`. The
buffer is the bytes with their terminator.

### HtmlTree, HtmlForms and LoginPage

The tree of a page is its nodes in document order with their depths, so that the
first child is the next node if it is deeper, and the next sibling is the next
node that is not deeper, if it is as deep. The walks of `get_form_fields` and
`get_input_fields` are recursive functions on the nodes. Both descend into
every element but the form or input they found: a form in a form is not one of
its own, and its inputs belong to the outer one. `tidy_failed` is the status that
ends the process; a page without a root has no forms.

A page is then the sequence of its forms, a URL the sequence of its parts, so that
`strncmp` with the length of the criterion is `IsPrefix`; names, values and
actions may be NULL. A form element has a `name` and a `value` too, and
`post_form` posts them as a field in front of its inputs (`own_field`), whatever
the form is for. `find_form`, `modify_form` and `post_form` are operators;
the loops over a list in the last two are recursive functions of the number of
elements done.

`LoginPage` runs everything from the tree to the posted fields, as
`login_to_gmail` does: `Tidy` (any statuses of libtidy), `ReadForms`, `Find`,
which ends the behaviour when there is no login form, `Modify` with the
configured user name or none, `Post`. The only thing said about the tree is
that it is one (`IsTree`): a node is at most one deeper than the node in front of
it, and inputs and texts have no children.

### Authorization and Session

`pc` names the reply the program waits for; an action is the code from that
reply to the next request, early returns, `exit` and NULL dereferences
included. `google` is what Google knows: whether this cookie session is signed
in, the code and the tokens it issued. Google's actions (external) may lose any
reply, show pages without the form or with other forms first, show some or all
of the strings `login_to_gmail` looks for, deny the approval, and issue tokens
with or without a refresh token. What is relied upon is that only a signed in
client sees all four strings, that Google never signs a client in without the
right credentials, and that a code works once and for the client it was issued
to. `sent` records every request. `config` may be any mix of right, wrong and
missing credentials, which includes all that `Configuration` can leave, since
`main` does not look at its result. Any page may also be one libtidy gives up
on, which ends the process in `get_forms`.

`Session` is what the account sees: log in, then a token, then reading with
that token, and the end at any point. The refinement mapping `Session` in
`Authorization` derives the stage from `pc` and `gmail_login`.

### Gtasks2ical

The composition: both modules are instances, `global_config` is their shared
state, written by the first and read by the second. `main` starts as soon as
`initialize_configuration` has returned, with whatever it returned. Here, and
only here, the credentials that reach Google have a history: the files, the
environment and the command line.

### TaskFetch

`stack` is the call stack of `get_all_list_tasks`; `decode_task_page` either
calls for the next page or ends the recursion, and each `append_tasks` is one
return, appending what came back to the caller's page. The server (external)
cuts pages anywhere up to `PageSize`, sends errors, or its reply is lost. A
page token is the number of tasks before the page: tokens are opaque to the
client, and this choice shows what an edit between two pages does. `quiet`
and `whole` record whether there was an edit or an error since the call began.
The task of `get_specified_task` and the lists are what the reply said, nothing
after an error.

### UnifiedTask

A string is its text and the structure that owns it: the parser of the reply,
the Google task or the unified task. A date whose conversion failed is `UNSET`,
the `GTimeVal` nobody has written to. `copy_task_values` and `copy_link` decode one
member by its name and type; `create_new_google_task` makes the unified task.
`TaskSources` decodes the members of an object in any order, as the hash table
of json-glib gives them, releases the parser and creates the unified task.
`copy_google_link` is as coded: the link it puts into the list is the Google
task's own, and the copy is lost.

### ICalFile

A file is its components, each the kinds of its subcomponents. `live` are the
components libical has allocated; `free_set` is `icalfileset_free`, which frees
them all. What happens to a file that cannot be opened depends on how libical was
built: the process ends or there are no todos.

### MergeTasks

A tree is the sequence its walk visits; a step is one call of the callback,
and a callback that returns TRUE ends its walk. `merge_matching_tasks` is the
stub of the code: it returns NULL, so that every match is a problem and no
merged task exists. `google_task_is_in_problems_list` compares the ID of the
task with the UIDs in the list of problems. Every todo of the model has a UID.

## 3. The runs

| Run | Checks | Bounds, and why they are enough |
|---|---|---|
| `http_transfer` | `TypeOK`, `NoDanglingOption`, `RequestAsCalled`, `Ipv4OnlyHonoured`, `BufferIsBody` | three requests: a leftover of the first is used by the second and seen after it; two bytes: one cut, or an empty body, and both |
| `html_forms` | `FormsInDocumentOrder`, `InputsOfForms`, `FirstLoginForm`, `FilledIn`, `PostedInOrder` | trees of every shape with up to `MaxNodes` = 4 nodes below the root: a form beside, below and in another, inputs at several depths (the proofs are for every tree); flat pages with one form and three inputs, or two forms: doubled and missing names, forms in either order; forms with a name and a value of their own |
| `authorization` | `TypeOK`, `LoginIsReal`, `PasswordOnlyToLogin`, `TokenIsIssued`, `SignedInBeforeConsent`, `IsSession`, `Terminates` | the run of the program is finite; every mix of three user names, passwords and client IDs; a login form that posts a field of its own |
| `gtasks2ical` | `CredentialsAsConfigured`, `TokensAsConfigured` | command lines of up to three of four words (right, help, a task, a third file); files with the credentials, the client, both mixed up, or unreadable, at all three places; the three kinds of environment variable; no login form, one with another user filled in, one with two inputs and a field of its own for the user |
| `task_fetch` | `TypeOK`, `CompleteWhenQuiet`, `PrefixWhenQuiet`, `DepthBounded`, `OwnReplyOnly`, `CallsEnd` | two calls, so that the second could see something of the first; lists of up to three tasks (four after the edit), pages of at most two: up to four pages; one edit at any moment |
| `task_sources` | `CarriedOver`, `StringsOwned`, `TodosInFileOrder` | objects with up to three members of every type, in every order: a mix-up needs two; up to three files, with empty components and other subcomponents between the todos |
| `configuration` | `TypeOK`, `ArgumentsSurvive`, `TasksCountOnce`, `LaterFileOverrides`, `CredentialsOfOneSource`, `SuccessMeansConfigured`, `SecondPassSucceeds` | four words: an option with its argument and both arguments in every order; nine words, one of each kind and two plain ones; every kind of file, and settings that overlap |
| `merge_tasks` | `TypeOK`, `NoGoogleTaskLost`, `UnmatchedTodosHaveNoTask`, `ProblemsAreMatches`, `InTreeOrder` | three todos and three of four tasks: a match in front of, between and behind others |
| `named_file` | what the help says of `-c` | as `configuration` |
| `merge_stop` | one claim of a comment | as `merge_tasks` |
| `ical_lifetime` | one claim of a comment | one file |
| `login_returns` | one claim of a comment | as `authorization` |

The last four end in a counterexample: there the code does not do what its own
text says (section 6). `configuration` is checked without the deadlock check
because the function returns; in the other modules the end is an explicit
stuttering step.

**Fairness.** `authorization` and `task_fetch` use it. `WF(Client)`: the
program is sequential and runs on as soon as it has a reply, so a step that
stays enabled is taken. `WF` of the server is an assumption about the network:
that every request ends, with a reply or without one. The code does not give
this by itself, since none of the three request functions sets a timeout.
No other property depends on either.

What the properties say in short:

- *HttpTransfer*: libcurl never follows an option into memory an earlier
  request freed; each transfer has the method, form, headers and buffer of its
  caller and of nobody before; "ipv4 only" survives the resets; the buffer is the
  body and one terminator, however the body came.
- *HtmlTree*: the forms are the outermost form elements in the order of the
  document, each with its own action, name and value; the inputs of each are all
  those below it, once and in order.
- *HtmlForms*: the form found is the first login form, if there is one; filling
  in touches only the first input of each name; the field of the form element is
  posted first and then the inputs in order, except what has no name or no value.
- *Authorization*: `login_to_gmail` believes in a login only if Google does;
  the password leaves only for the login address; a task is requested only with
  a token issued in this session; nothing but the login happens before the login;
  the program implements `Session`; it ends.
- *Gtasks2ical*: a user name or password that is posted is the one configured or
  what Google itself put into the form besides the first input of that name, even
  after a configuration that failed half-way; what is posted of the login form has the
  configured ones. Tokens are issued only for the client of the last file that names
  one, with the configured password, and for the configured user unless a second
  field of Google's login form names the account.
- *TaskFetch*: an undisturbed read is exactly the list, in order; with errors a
  prefix; the recursion is no deeper than the list is long; a task or the entry of a
  list is what its own reply said, nothing of an earlier one; the task lists returned
  are the user's, in order, from the first one on; calls end.
- *UnifiedTask*: each member of a reply reaches its own field of the unified task,
  whatever its type, the order and the rest; no text stands for a member that is
  missing or no string; a flag is set by `true` and, as json-glib has it, by any
  number but 0; all strings but the links are copies. What a date that cannot be read
  becomes is not asked.
- *ICalFile*: the todos collected are those of the files, all of them, in order.
- *Configuration*: the list name and the file are those of the command line
  although it is decoded twice and permuted in between; tasks do not count
  twice; a later file overrides an earlier one setting by setting, then the
  environment, then the command line; user and password are not mixed once the
  environment is set; TRUE means the credentials and the file are there; the
  second pass cannot fail, which its comment asserts.
- *MergeTasks*: every Google task is unmatched or a problem, never both;
  an unmatched todo has no task and a problem has one; order is kept.

## 4. The proofs

TLC checks the sizes above; TLAPS proves the following for every value of the
constants that meets the assumptions. With them every invariant and action
property of the passing runs, and the refinement of `Session`, is a theorem.

**Assumptions.** They are the only things taken for granted, and TLC evaluates
each of them in a run.

- Bounds are natural numbers: `BoundsAssumption`, `MaxWordsAssumption`,
  `MaxReadsAssumption`, `PageSizeAssumption` (pages are not empty), `NowAssumption`
  (the clock is not 0).
- Inputs have their shape: `PagesAssumption` (a page is a sequence of forms),
  the `TreesAssumption` of `LoginPage` (a page is a tree in document order),
  `ObjectsAssumption` (a JSON string is a text, an array a sequence),
  the two `FilesAssumption`s (settings have names the program knows, and a file that
  cannot be loaded has none; components are sequences), `ListAssumption` and
  `ListsAssumption` (lists are sequences), and the `TreesAssumption` of `MergeTasks` (the keys of the tree of Google tasks are
  distinct, as those of a `GTree` are).
- A pointer to something is not NULL: `NullAssumption` of each module,
  `FieldNullAssumption`, `FormNullAssumption`.
- What Google does: `NoPasswordAssumption` (no page comes with one of the user's
  passwords filled in, neither in an input nor in the field of a form element).
  `SetupAssumption` and `AccountAssumption` of `Gtasks2ical` are those of its two
  parts. Which inputs a form has, and how often, is not restricted.

**`HttpTransferProofs`**: `TypeCorrect`, `BufferCorrect`, `OptionsNeverDangle`,
`RequestsIndependent`, `Ipv4OnlyReachesAll`. The invariant behind the middle ones
(`HandleInv`) says that between requests the handle has its defaults (`Return`
resets it) and that while a request runs each pointer on the handle is either 0 or
its own; without the first half a request could not know what it starts from.

**`LoginPageProofs`**: `FormsOrdered`, `InputsOrdered`, `FindsFirst`,
`CredentialsInPlace`, `PostedAsFilled`, for trees of any size, depth and shape.
The state is simple (`PageInv`: each stage holds the result of its operator on the
page); the work is what the operators compute.

- *Loops.* `modify_form` and `posted_fields` are functions of the number of
  elements done. `FillsIn` says what the first returns for any sequence of inputs,
  `PostsInOrder` what `post_form` makes of the second and of the form's own field.
- *Walks.* The recursions over the tree are instances of one equation, `Walk`: a node
  gives what its first child gives, or something of its own, and then what its next
  sibling gives. `WalkEnds` shows that there is a function with this equation, since
  children and siblings are further on (`Onward`), and `WalkLists` what it lists:
  if the nodes `K[i]` to be listed from `i` on are those of its child, or `i` itself,
  in front of those of its sibling (`Visits`), the walk lists them, each
  once and in order (`Lists`, with `Rank` for the place of a node in a set).
  Both are inductions over the nodes from the last to the first, by `UpTo`: a set that has
  0, and `k` whenever it has `k - 1`, has all numbers (`SmallestIsMember` of those it
  lacks).
- *Trees.* `Below`, `Rest`, `IsChild` and `IsNext` are the subtree, what follows in
  it, and the two pointers in terms of depths; `InputsBelow` and `OuterParts` are the
  `Visits` of the two walks. The second has the outermost forms only because it does not
  descend from a form.

**`AuthorizationProofs`**: `TypeCorrect`, `LoginReal`, `TokensIssued`,
`PasswordKept`, `SignedInFirst`, and `ImplementsSession`: the program implements
`Session`, each step being a step of `Session` or a stutter. `LoginIsReal` and
`TokenIsIssued` are not inductive, since the program learns what Google did only from
the reply that arrives a step later. The invariant `AccountInv` therefore has one
part about the replies (`BodyInv`: a reply that shows all markers was sent to a client
that is signed in, a reply with tokens has tokens that were issued) and one about
the stages (`StageInv`: from the approval on, `gmail_login` is TRUE; when a task
is requested, the token is there). That the login form and the approval form
post to different addresses, and neither to the Tasks API, is a chain of lemmas on
prefixes of URLs: `find_form` compares only the beginning of an action. For
`PasswordKept`, `WhatIsSent` names the requests with fields: a filled login
form, an approval form or a code exchange, each with the field of its form element if
it has one. What filling in and posting do to the
fields is cited from `LoginPageProofs`, through an instance of it without
pages.

**`ConfigurationProofs`**, for command lines of any length over any words and for any
files:

- `TypeCorrect`: the types, and that the words sorted out and left add up to the
  command line (`LengthInv`).
- `OneSource`, by `SourceInv`: what the environment has left in the configuration, and
  that nothing behind it writes there.
- `Provenance`: wherever the function stops, and however it failed, each setting is
  that of the last file which has it, or of the environment. `FilesInv` and `EarlyInv`
  say so while the files are read and after (`LastSetting`, with `OneMoreFile` for
  a step).
- `SecondPassSound`, `SuccessSound`, `ArgumentsSound`, `TasksSound`,
  `FilesOverride`, by `PassInv`. The places that hold arguments of options are a set
  that is shown to satisfy its recursive reading (`ArgumentPlacesAre`). The first pass
  keeps the options in an order in which they can be decoded one after the other
  (`Decodable`, with the set of places where an option begins), as many of each kind
  as were given (`Matched`), and the plain words in order (`Reads`). So the permuted
  `argv` is such options up to a place `n`, and behind it one or two words that are no
  options or follow `--` (`Permuted`, `Faithful`). The second pass stands at one of the
  places or is behind `n` (`Scanned`), meets neither an error nor `-h`, and has counted
  the options in front of it (`Counted`); at its end those are all (`Totals`,
  `Named`).

**`Gtasks2icalProofs`**: `CredentialsSound` and `TokensSound`. The two modules are
composed as their proofs are: `ConfigurationProofs` and `AuthorizationProofs` are
instances under the substitutions of the composition, a step of the whole is a step
of one and leaves the other's variables alone, and so `Provenance` and `AccountInv`
hold of it. `Waiting` says that nothing is sent before the configuration has returned,
after which it no longer changes; `Settled` is `Provenance` for the values `main` hands
on; `ClientAsConfigured` and
`UserAsConfigured` carry the client and the user from the requests to what Google
knows. A form may bring along a user name or a password of its own, in the field of the
form element, in a second input of that name, or in a form that is not filled in:
`BroughtIsPrefilled` shows that nothing else than these (`Prefilled`) is posted under
those names.

**`TaskFetchProofs`**: `TypeCorrect`, `ReadsComplete`, `ReadsPrefix`,
`RecursionBounded`, `OwnReplies`. The properties speak of the end of a read and
are far from inductive. `QuietInv` describes the whole call stack while nobody
edits: the pages held by the active calls lie end to end in the list
(`StackContinues`), each of them advanced by at least one task
(`StackAdvances`), the reply under way continues where the top call asked
(`AnswerContinues`), and what a return carries is the rest of the list from
there on, or a prefix of it after an error (`ReturnContinues`). The length of
the list bounds the stack by `StackAdvances`; the result is the list once
`ReturnContinues` reaches the bottom of the stack. TLC confirmed the invariant
before it was proved.

**`MergeTasksProofs`**: `TypeCorrect`, `UnmatchedTodosSound`, `NoTaskLost`,
`ProblemsSound`, `ListsInOrder`. The invariant adds to the lists how far the walk
has come: every Google task in front of `next` is in exactly one list, and every
list stops in front of `next`.

**`TaskSourcesProofs`**: `TasksCarriedOver` and `OwnStrings`, for objects with any
members of any type. `TaskInv` gives the Google task in closed form whatever the order
so far: each member has the value of its node if that has been decoded, and its
initial value otherwise. `FilesInOrder`, for any number of files of any size: what the
property lacks to be inductive is that nothing in the list is ahead of the loops
(`Behind`), between two files as well: the next todo comes after all.

**Only model-checked.** Liveness (`Terminates`, `CallsEnd`), which needs fairness
and `ENABLED`; and the four runs that end in a counterexample, which refute what they
state. What a recursive function returns is proved by induction over a set (`UpTo`),
since the provers cannot instantiate the library's induction theorems, which take an
operator.

## 5. What is left out

- The text of JSON, HTML and messages; a date is its text or `UNSET`, and the
  arithmetic of GLib on it, which adds 0 years, is left to GLib.
- The parsers: libtidy and libxml2 make a tree, json-glib members, libical
  components.
- Todos without a UID in a merge (line 391 of `merge.c` gives the lookup NULL).
- What a date that cannot be read becomes: modelled, but no property asks for it.
- The stub functions of `merge.c` behind a match (`merge_matching_tasks` returns
  NULL), beyond their result.
- The device grant of `obtain_device_code` (`is_device_request`), which no
  caller asks for.
- Memory exhaustion, and leaks as such.
- `old-code.c`, which the preprocessor removes.

## 6. Where the code and its text disagree

| Run | Text | Code |
|---|---|---|
| `named_file` | `initializeconfig.c:71`: `-c file` reads `file` | reads the word after it |
| `merge_stop` | `merge.c:437`: finds all matches | the first match ends the walk |
| `ical_lifetime` | `icalendar.c:62`: copies the component into the list | the list points into the file set, which is freed first |
| `login_returns` | `oauth2-google.c:543`: returns FALSE for a login that failed | without a login form, or without a reply to it, the process dies |

Others the models contain but no run states:

- `gtasks2ical.c:46` promises EXIT_SUCCESS only without errors; a failed login or
  authorization ends in `exit( 0 )`.
- `get_forms` ends the process when libtidy gives up on a page, in `login_to_gmail`
  too, which promises FALSE (`oauth2-google.c:543`).
- A new task gets a UID that ends in `@google.com` (`merge.c:211`), the lookup
  compares UIDs with bare IDs (`merge.c:391`), so that such a todo would not match its
  own task; the comment at line 389 promises no more than identity.
- The expiration time (`oauth2-google.c:622`) is that of the reply: a comparison is
  inverted.
- An error reply counts as the last page (`gtasks.c:483`); `get_gtasks_lists` reads
  the first page only (`gtasks.c:202`); `get_specified_task` returns an empty task
  for an error (`gtasks.c:589`).
- `read_url` hands out a part of a page although its comment promises NULL
  (`oauth2-google.c:414`); `obtain_device_code` takes the text of an error title
  for the code (`oauth2-google.c:638`).
- `-u` sets `force_download` (`initializeconfig.c:241`); the word stored for `-t`
  is the one after its argument, as for `-c` (`initializeconfig.c:252`); the list of
  tasks is given to `g_free` (`initializeconfig.c:164`); a configuration file with
  settings in front of its first group is ignored in silence
  (`initializeconfig.c:423`); the environment variable must contain white
  space that `gtasks2ical.h:31` does not mention.
- The link of a Google task, not its copy, is put into the unified task
  (`merge.c:156`); the related task is the bare ID of the parent, without the ending
  its own UID has, or NULL (`merge.c:221`); a date that cannot be read is what the
  stack held (`gtasks.c:346`).

## 7. The plan

Done, in this order: `HttpTransfer`, `HtmlForms`, `Authorization` with `Session`,
`TaskFetch`, `MergeTasks`, `Configuration`, `HtmlTree`, `UnifiedTask`, `ICalFile`,
`Gtasks2ical`, `LoginPage`, `TaskSources`; theorems for all invariants, action
properties and the refinement the runs check.

Left, most important first:

1. `DepthBounded` without the condition that the list is quiet, for a bound on the
   edits; what a read of a list returns that others only append to.
2. `Gtasks2ical` as an implementation of `Session`, from `ImplementsSession` and the
   instances of `Gtasks2icalProofs`.
3. A variant function for the end of a call of `TaskFetch`: a quantity in the natural
   numbers that each step of the client decreases, as an action property, which is the
   part of `CallsEnd` that needs no fairness.
