------------------------------- MODULE Export -------------------------------
(* Exports of the pages a library selects (wikisync-cli, export.rs): which
   revision of a page an export shows, under which path, and how its directory
   takes the place of an earlier one while other exporters do the same, an
   exporter is killed or the machine loses power.  A listing of "exports" is a
   set of <<place, export>>; a place is <<name, process>>, process 0 for the
   output and another for the backup that this process set aside.  Times are
   <<year, month, day, hour>>. *)
EXTENDS Integers, Sequences, FiniteSets, FiniteSetsExt, SequencesExt

CONSTANTS
  Saver,           \* process identifiers of exporters, a set of positive numbers
  ExportPages,     \* the selected pages: records of wiki, id and slug, ordered by wiki and id
  Revisions,        \* records of page, id and time
  FirstHeld,       \* the revisions that the library starts with
  Targets,         \* what exporters are asked for
  MaxExports,      \* bound on the exports
  MaxExportFaults, \* bound on failed renames, kills and losses of power
  MaxChanges       \* bound on what the library does meanwhile

VARIABLES held, readable, head, exports, listed, listings, saver, acknowledged, exportFaults, changes
exportVars == <<held, readable, head, exports, listed, listings, saver, acknowledged, exportFaults, changes>>
pageVars == <<held, readable, head, changes>>

ASSUME ExportAssumption ==
  /\ Saver \subseteq Nat \ {0}
  /\ ExportPages \in Seq([wiki : Nat, id : STRING, slug : Seq(STRING)])
  /\ \A t \in Targets : t.kind = "time" =>
       t.time \in Int \X Int \X Int \X Int /\ t.offset \in Int /\ -24 < t.offset /\ t.offset < 24

Pages == DOMAIN ExportPages
None == 0
Earlier(s, t) == \E i \in DOMAIN s : s[i] < t[i] /\ \A j \in 1 .. i - 1 : s[j] = t[j]

(* The calendar: hours since 1970 of a time with an offset, and the time in
   UTC of a number of hours, which the years bound.  Years are counted from
   March, in eras of four hundred. *)
DaysInMonth(year, month) ==
  CASE month \in {1, 3, 5, 7, 8, 10, 12} -> 31
    [] month \in {4, 6, 9, 11} -> 30
    [] month = 2 -> IF year % 4 = 0 /\ (year % 100 # 0 \/ year % 400 = 0) THEN 29 ELSE 28
DaysOfYears(years) == years * 365 + years \div 4 - years \div 100
DaysOfMonths(months) == (153 * months + 2) \div 5
DaysFromCivil(year, month, day) ==
  LET shifted == IF month <= 2 THEN year - 1 ELSE year
      era == shifted \div 400
      shiftedMonth == month + IF month > 2 THEN -3 ELSE 9
  IN  era * 146097 + DaysOfYears(shifted - era * 400) + DaysOfMonths(shiftedMonth) + day - 1 - 719468
ParseTime(t) ==
  IF t.time[2] \in 1 .. 12 /\ t.time[3] \in 1 .. DaysInMonth(t.time[1], t.time[2]) /\ t.time[4] \in 0 .. 23
  THEN <<DaysFromCivil(t.time[1], t.time[2], t.time[3]) * 24 + t.time[4] - t.offset>>
  ELSE <<>>
YearOfEra(dayOfEra) ==
  (dayOfEra - dayOfEra \div 1460 + dayOfEra \div 36524 - dayOfEra \div 146096) \div 365
CivilOf(years, dayOfYear, hour) ==
  LET shifted == (5 * dayOfYear + 2) \div 153
      month == shifted + IF shifted < 10 THEN 3 ELSE -9
      year == years + IF month <= 2 THEN 1 ELSE 0
  IN  IF 1 <= year /\ year <= 9999
      THEN <<<<year, month, dayOfYear - DaysOfMonths(shifted) + 1, hour>>>>
      ELSE <<>>
Civil(hours) ==
  LET days == hours \div 24 + 719468
      era == days \div 146097
      dayOfEra == days - era * 146097
      yearOfEra == YearOfEra(dayOfEra)
  IN  CivilOf(yearOfEra + era * 400, dayOfEra - DaysOfYears(yearOfEra), hours % 24)

(* What is asked for: the current revisions, those of a time, or those of the
   time of a revision that one selected page has. *)
RevisionsById(id) == {r \in held : r.id = id}
Cutoff(t) ==
  CASE t.kind = "current" -> <<0>>
    [] t.kind = "time" -> ParseTime(t)
    [] t.kind = "revision" ->
         IF Cardinality(RevisionsById(t.id)) = 1
         THEN ParseTime([time |-> (CHOOSE r \in RevisionsById(t.id) : TRUE).time, offset |-> 0])
         ELSE <<>>
OutputName(t) ==
  CASE t.kind = "current" -> <<"current">>
    [] t.kind = "time" -> <<"time", ParseTime(t)[1]>>
    [] t.kind = "revision" -> <<"revision", ExportPages[(CHOOSE r \in RevisionsById(t.id) : TRUE).page].wiki, t.id>>

(* The newest revision of a page by a time, the larger identifier of two. *)
Newer(r, s) == Earlier(s.time, r.time) \/ (s.time = r.time /\ s.id < r.id)
NewestOf(revisions) ==
  IF revisions = {} THEN None ELSE (CHOOSE r \in revisions : \A s \in revisions \ {r} : Newer(r, s)).id
NewestBy(page, time) == NewestOf({r \in held : r.page = page /\ ~Earlier(time, r.time)})

(* The path of an article: its page and slug, and its wiki if that is taken. *)
Stem(page) == <<ExportPages[page].id>> \o ExportPages[page].slug
SuffixedStem(page) == Stem(page) \o <<"wiki", ExportPages[page].wiki>>
PathForPage(page, used) == <<Stem(page)>>
PathFor(page, used) ==
  IF Stem(page) \notin used THEN <<Stem(page)>>
  ELSE IF SuffixedStem(page) \notin used THEN <<SuffixedStem(page)>> ELSE <<>>

Resting == [at |-> "rest"]
Output(name) == <<name, 0>>
Backup(p) == <<saver[p].name, p>>
Listed(place) == \E e \in listed : e[1] = place
Occupant(place) == (CHOOSE e \in listed : e[1] = place)[2]
Move(from, to) == {IF e[1] = from THEN <<to, e[2]>> ELSE e : e \in listed}
Entering(p) == listed \cup {<<Output(saver[p].name), saver[p].is>>}
Rename(to) == listed' = to /\ listings' = listings \cup {to}
Goes(p, where) == saver' = [saver EXCEPT ![p].at = where]
EndExport(p) == saver' = [saver EXCEPT ![p] = Resting]
ListingKept == UNCHANGED <<listed, listings>>

(* The library was exported before it had captured a page. *)
ExportInit ==
  /\ held = FirstHeld /\ readable = FirstHeld /\ changes = 0
  /\ head = [page \in Pages |-> NewestOf({r \in FirstHeld : r.page = page})]
  /\ exports = <<[name |-> <<"current">>, target |-> [kind |-> "current"], shows |-> [page \in Pages |-> None],
                  paths |-> [page \in Pages |-> <<>>], known |-> [page \in Pages |-> {}],
                  whole |-> TRUE, durable |-> TRUE]>>
  /\ listed = {<<<<<<"current">>, 0>>, 1>>} /\ listings = {listed} /\ acknowledged = {<<"current">>}
  /\ exportFaults = 0 /\ saver = [p \in Saver |-> Resting]

(* A synchronisation captures a revision, of which it makes the head when the
   wiki shows it; a purge takes the bytes of a revision and keeps its row. *)
CaptureRevision ==
  /\ changes < MaxChanges /\ changes' = changes + 1
  /\ \E r \in Revisions \ held :
       /\ held' = held \cup {r} /\ readable' = readable \cup {r}
       /\ head' \in {head, [head EXCEPT ![r.page] = r.id]}
  /\ UNCHANGED <<exports, listed, listings, saver, acknowledged, exportFaults>>
EraseRevision ==
  /\ changes < MaxChanges /\ changes' = changes + 1
  /\ \E r \in readable : readable' = readable \ {r}
  /\ UNCHANGED <<held, head, exports, listed, listings, saver, acknowledged, exportFaults>>

(* An exporter reads the selection with its heads, and resolves its time. *)
BeginExport(p) ==
  /\ saver[p] = Resting
  /\ Len(exports) + Cardinality({q \in Saver : saver[q].at \in {"choosing", "building"}}) < MaxExports
  /\ \E t \in Targets :
       /\ Cutoff(t) # <<>>
       /\ saver' = [saver EXCEPT ![p] =
            [at |-> IF ExportPages = <<>> THEN "building" ELSE "choosing", target |-> t, name |-> OutputName(t),
             cutoff |-> Cutoff(t)[1], heads |-> head, shows |-> <<>>, paths |-> <<>>, known |-> <<>>]]
  /\ ListingKept /\ UNCHANGED <<pageVars, exports, acknowledged, exportFaults>>

(* It takes the pages one by one, each in a query of its own. *)
Choose(p) ==
  LET s == saver[p]
      page == Len(s.shows) + 1
      bound == Civil(s.cutoff)
      revision == IF s.target.kind = "current" THEN s.heads[page] ELSE NewestBy(page, bound[1])
      path == IF revision = None THEN <<<<>>>> ELSE PathFor(page, ToSet(s.paths))
  IN  /\ s.at = "choosing"
      /\ IF (s.target.kind # "current" /\ bound = <<>>) \/ path = <<>>
         THEN EndExport(p)
         ELSE saver' = [saver EXCEPT ![p] =
                [s EXCEPT !.shows = Append(@, revision), !.paths = Append(@, path[1]),
                          !.known = Append(@, {r \in held : r.page = page}),
                          !.at = IF page = Len(ExportPages) THEN "building" ELSE "choosing"]]
      /\ ListingKept /\ UNCHANGED <<pageVars, exports, acknowledged, exportFaults>>

(* It writes the articles into a staging directory of its own, or none of them
   when a revision cannot be read, and then syncs them. *)
Shown(s) == {r \in held : s.shows[r.page] = r.id}
Build(p) ==
  LET s == saver[p]
  IN  /\ s.at = "building"
      /\ IF Shown(s) \subseteq readable
         THEN /\ exports' = Append(exports,
                   [name |-> s.name, target |-> s.target, shows |-> s.shows, paths |-> s.paths,
                    known |-> s.known, whole |-> TRUE, durable |-> FALSE])
              /\ saver' = [saver EXCEPT ![p] = [at |-> "staged", name |-> s.name, is |-> Len(exports) + 1]]
         ELSE EndExport(p) /\ UNCHANGED exports
      /\ ListingKept /\ UNCHANGED <<pageVars, acknowledged, exportFaults>>
SyncStaging(p) ==
  /\ saver[p].at = "staged" /\ Goes(p, "installing")
  /\ exports' = [exports EXCEPT ![saver[p].is].durable = TRUE]
  /\ ListingKept /\ UNCHANGED <<pageVars, acknowledged, exportFaults>>

(* Whether there is an output decides how the staging directory takes its
   place; a backup that an earlier process of the same number left is refused. *)
LookAtOutput(p) ==
  /\ saver[p].at = "installing"
  /\ IF ~Listed(Output(saver[p].name)) THEN Goes(p, "fresh")
     ELSE IF Listed(Backup(p)) THEN EndExport(p) ELSE Goes(p, "aside")
  /\ ListingKept /\ UNCHANGED <<pageVars, exports, acknowledged, exportFaults>>
InstallFresh(p) ==
  /\ saver[p].at = "fresh"
  /\ IF Listed(Output(saver[p].name))
     THEN EndExport(p) /\ ListingKept  \* a directory with files in it is not renamed over
     ELSE Rename(Entering(p)) /\ Goes(p, "ending")
  /\ UNCHANGED <<pageVars, exports, acknowledged, exportFaults>>
SetAside(p) ==
  /\ saver[p].at = "aside"
  /\ IF Listed(Output(saver[p].name))
     THEN Rename(Move(Output(saver[p].name), Backup(p))) /\ Goes(p, "replacing")
     ELSE EndExport(p) /\ ListingKept
  /\ UNCHANGED <<pageVars, exports, acknowledged, exportFaults>>
Replace(p) ==
  /\ saver[p].at = "replacing"
  /\ IF Listed(Output(saver[p].name))
     THEN EndExport(p) /\ ListingKept  \* nor can the backup return
     ELSE Rename(Entering(p)) /\ Goes(p, "settling")
  /\ UNCHANGED <<pageVars, exports, acknowledged, exportFaults>>
RestoreBackup(p) ==
  /\ saver[p].at = "replacing" /\ exportFaults < MaxExportFaults /\ exportFaults' = exportFaults + 1
  /\ IF Listed(Output(saver[p].name)) THEN ListingKept ELSE Rename(Move(Backup(p), Output(saver[p].name)))
  /\ EndExport(p) /\ UNCHANGED <<pageVars, exports, acknowledged>>

(* The listing is synced before the backup goes, file by file, and after. *)
SettleUnsynced(p) ==
  /\ saver[p].at = "settling" /\ Goes(p, "dropping") /\ ListingKept
  /\ UNCHANGED <<pageVars, exports, acknowledged, exportFaults>>
Settle(p) ==
  /\ saver[p].at = "settling" /\ listings' = {listed} /\ Goes(p, "dropping")
  /\ UNCHANGED <<pageVars, exports, listed, acknowledged, exportFaults>>
DropBackup(p) ==
  /\ saver[p].at = "dropping" /\ Goes(p, "dropped")
  /\ exports' = [exports EXCEPT ![Occupant(Backup(p))].whole = FALSE]
  /\ ListingKept /\ UNCHANGED <<pageVars, acknowledged, exportFaults>>
RemoveBackup(p) ==
  /\ saver[p].at = "dropped" /\ Rename({e \in listed : e[1] # Backup(p)}) /\ Goes(p, "ending")
  /\ UNCHANGED <<pageVars, exports, acknowledged, exportFaults>>
Acknowledge(p) ==
  /\ saver[p].at = "ending" /\ listings' = {listed} /\ EndExport(p)
  /\ acknowledged' = acknowledged \cup {saver[p].name}
  /\ UNCHANGED <<pageVars, exports, listed, exportFaults>>

(* An exporter is killed, or fails, anywhere; a loss of power keeps one of the
   listings since the last sync, and of a directory only what was synced. *)
KillExport(p) ==
  /\ saver[p] # Resting /\ exportFaults < MaxExportFaults /\ exportFaults' = exportFaults + 1
  /\ EndExport(p) /\ ListingKept /\ UNCHANGED <<pageVars, exports, acknowledged>>
LosePower ==
  /\ exportFaults < MaxExportFaults /\ exportFaults' = exportFaults + 1
  /\ listed' \in listings /\ listings' = {listed'}
  /\ exports' = [n \in DOMAIN exports |-> [exports[n] EXCEPT !.whole = @ /\ exports[n].durable]]
  /\ saver' = [p \in Saver |-> Resting] /\ UNCHANGED <<pageVars, acknowledged>>

ExportNext ==
  \/ CaptureRevision \/ EraseRevision \/ LosePower
  \/ \E p \in Saver :
       \/ BeginExport(p) \/ Choose(p) \/ Build(p) \/ SyncStaging(p) \/ LookAtOutput(p) \/ InstallFresh(p)
       \/ SetAside(p) \/ Replace(p) \/ RestoreBackup(p) \/ Settle(p) \/ DropBackup(p) \/ RemoveBackup(p)
       \/ Acknowledge(p) \/ KillExport(p)
ExportSpec == ExportInit /\ [][ExportNext]_exportVars

(* The time in UTC of a time with an offset of less than a day, by the
   calendar: the day before or after when the hour leaves its day. *)
DayAfter(y, m, d) ==
  IF d < DaysInMonth(y, m) THEN <<y, m, d + 1>> ELSE IF m < 12 THEN <<y, m + 1, 1>> ELSE <<y + 1, 1, 1>>
DayBefore(y, m, d) ==
  IF d > 1 THEN <<y, m, d - 1>> ELSE IF m > 1 THEN <<y, m - 1, DaysInMonth(y, m - 1)>> ELSE <<y - 1, 12, 31>>
AtHour(day, hour) == <<day[1], day[2], day[3], hour>>
UtcTime(t) ==
  LET hour == t.time[4] - t.offset
  IN  IF hour < 0 THEN AtHour(DayBefore(t.time[1], t.time[2], t.time[3]), hour + 24)
      ELSE IF hour > 23 THEN AtHour(DayAfter(t.time[1], t.time[2], t.time[3]), hour - 24)
      ELSE AtHour(t.time, hour)
Exact(export) ==
  export.target.kind = "time" =>
    \A page \in Pages :
      export.shows[page] = NewestOf({r \in export.known[page] : ~Earlier(UtcTime(export.target), r.time)})
OnePathEach(export) ==
  \A page, other \in Pages :
    page # other /\ export.shows[page] # None => export.paths[page] # export.paths[other]

ExportTypeOK ==
  /\ readable \subseteq held /\ held \subseteq Revisions /\ listed \in listings
  /\ \A e \in listed : e[2] \in DOMAIN exports /\ (e[1][2] = 0 \/ e[1][2] \in Saver)
  /\ \A e, f \in listed : e[1] = f[1] => e = f

(* What lies at an output is a whole export, and a name whose export was
   acknowledged keeps one, there or set aside, whoever else replaces it and
   whenever an exporter or the power goes; an export of a time shows of every
   page the newest revision that the library held by that time, each article
   under a path of its own. *)
ExportsKept ==
  /\ \A e \in listed : e[1][2] = 0 => exports[e[2]].whole
  /\ \A name \in acknowledged : \E e \in listed : e[1][1] = name /\ exports[e[2]].whole
  /\ \A n \in DOMAIN exports : Exact(exports[n]) /\ OnePathEach(exports[n])
=============================================================================
