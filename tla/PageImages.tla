----------------------------- MODULE PageImages -----------------------------
(***************************************************************************)
(* Memory images.  A directory of images holds, for a task, a pagemap: a   *)
(* sequence of entries that say which pages follow each other in the file  *)
(* of pages, and which are to be looked for in the directory's parent.     *)
(* page-pipe.c and page-xfer.c put them together, page-read.c reads them,  *)
(* always forward, and cr-dedup.c punches out of a parent what its child   *)
(* has again.                                                              *)
(*                                                                         *)
(* dirs is the sequence of directories, [parent, pm, pages], where parent  *)
(* is an index of dirs, or 0.  Addresses count pages.                      *)
(***************************************************************************)
EXTENDS Integers, Sequences, SequencesExt

Zero == 0  \* the content of a page that nobody wrote to, and of a hole in a file

Entry(vaddr, nr, in_parent) == [vaddr |-> vaddr, nr |-> nr, in_parent |-> in_parent]
End(e) == e.vaddr + e.nr

-----------------------------------------------------------------------------
(* page-pipe.c *)

\* page_pipe_add_page(), page_pipe_add_hole(): the last iovec grows when it can.
AddIov(iovs, addr) ==
  IF iovs # <<>> /\ Last(iovs).base + Last(iovs).len = addr
  THEN [iovs EXCEPT ![Len(iovs)].len = @ + 1]
  ELSE Append(iovs, [base |-> addr, len |-> 1])

-----------------------------------------------------------------------------
(* page-xfer.c *)

Op(cmd, iov) == [cmd |-> cmd, iov |-> iov]

\* Mutant: the holes come last.
RECURSIVE page_xfer_dump_pages_HolesLast(_, _)
page_xfer_dump_pages_HolesLast(iovs, holes) ==
  IF iovs # <<>>
  THEN <<Op("pagemap", Head(iovs)), Op("pages", Head(iovs))>>
         \o page_xfer_dump_pages_HolesLast(Tail(iovs), holes)
  ELSE [i \in DOMAIN holes |-> Op("hole", holes[i])]

\* page_xfer_dump_pages(): the order of the writes.
RECURSIVE page_xfer_dump_pages(_, _)
page_xfer_dump_pages(iovs, holes) ==
  IF iovs = <<>> THEN [i \in DOMAIN holes |-> Op("hole", holes[i])]
  ELSE IF holes # <<>> /\ Head(holes).base < Head(iovs).base
  THEN <<Op("hole", Head(holes))>> \o page_xfer_dump_pages(iovs, Tail(holes))
  ELSE <<Op("pagemap", Head(iovs)), Op("pages", Head(iovs))>>
         \o page_xfer_dump_pages(Tail(iovs), holes)

-----------------------------------------------------------------------------
(* page-read.c.  A reader has, for each directory of the chain, the current *)
(* entry (0: none), the next one, the address and the place in the file.    *)

open_page_read(dirs) ==
  [d \in DOMAIN dirs |-> [pe |-> 0, next |-> 1, cvaddr |-> 0, off |-> 1]]

get_pagemap(dirs, r, d) ==
  LET pm == dirs[d].pm
      e == pm[r[d].next]
  IN  IF r[d].next > Len(pm) THEN [ret |-> 0, r |-> r]
      ELSE [ret |-> IF e.in_parent /\ dirs[d].parent = 0 THEN -1 ELSE 1,
            r |-> [r EXCEPT ![d].pe = r[d].next, ![d].next = @ + 1,
                            ![d].cvaddr = e.vaddr]]

\* Mutant: the place in the file moves whatever the entry is.
skip_pagemap_pages_Always(dirs, r, d, len) ==
  [r EXCEPT ![d].cvaddr = @ + len, ![d].off = @ + len]

skip_pagemap_pages(dirs, r, d, len) ==
  [r EXCEPT ![d].cvaddr = @ + len,
            ![d].off = IF dirs[d].pm[r[d].pe].in_parent THEN @ ELSE @ + len]

RECURSIVE seek_pagemap_page(_, _, _, _)
seek_pagemap_page(dirs, r, d, vaddr) ==
  LET e == dirs[d].pm[r[d].pe]
      new_pagemap(r1) ==
        LET g == get_pagemap(dirs, r1, d)
        IN  IF g.ret <= 0 THEN [ret |-> -1, r |-> g.r]
            ELSE seek_pagemap_page(dirs, g.r, d, vaddr)
  IN  IF r[d].pe = 0 THEN new_pagemap(r)
      ELSE IF vaddr < r[d].cvaddr THEN [ret |-> -1, r |-> r]
      ELSE IF End(e) <= vaddr
      THEN new_pagemap(skip_pagemap_pages(dirs, r, d, End(e) - r[d].cvaddr))
      ELSE [ret |-> 0, r |-> skip_pagemap_pages(dirs, r, d, vaddr - r[d].cvaddr)]

RECURSIVE read_pagemap_page(_, _, _, _)
read_pagemap_page(dirs, r, d, vaddr) ==
  LET parent == dirs[d].parent
      s == seek_pagemap_page(dirs, r, parent, vaddr)
      p == read_pagemap_page(dirs, s.r, parent, vaddr)
      Fail == [ret |-> -1, r |-> r, page |-> Zero]
  IN  IF dirs[d].pm[r[d].pe].in_parent
      THEN IF s.ret = -1 \/ p.ret = -1 THEN Fail
           ELSE [p EXCEPT !.r[d].cvaddr = @ + 1]
      ELSE IF r[d].off > Len(dirs[d].pages) THEN Fail
      ELSE [ret |-> 1, page |-> dirs[d].pages[r[d].off],
            r |-> [r EXCEPT ![d].cvaddr = @ + 1, ![d].off = @ + 1]]

\* restore_priv_vma_content(): the pages of the pagemap's entries, one by one,
\* into memory that is all zero.
RECURSIVE ReadPages(_, _, _, _, _, _)
ReadPages(dirs, r, d, va, n, mem) ==
  LET p == read_pagemap_page(dirs, r, d, va)
  IN  IF n = 0 THEN [ret |-> 0, r |-> r, mem |-> mem]
      ELSE IF va \notin DOMAIN mem \/ p.ret < 0
      THEN [ret |-> -1, r |-> r, mem |-> mem]
      ELSE ReadPages(dirs, p.r, d, va + 1, n - 1, [mem EXCEPT ![va] = p.page])

RECURSIVE RestoreFrom(_, _, _, _)
RestoreFrom(dirs, r, d, mem) ==
  LET g == get_pagemap(dirs, r, d)
      e == dirs[d].pm[g.r[d].pe]
      c == ReadPages(dirs, g.r, d, e.vaddr, e.nr, mem)
  IN  IF g.ret <= 0 THEN [ret |-> g.ret, mem |-> mem]
      ELSE IF c.ret < 0 THEN [ret |-> -1, mem |-> mem]
      ELSE RestoreFrom(dirs, c.r, d, c.mem)

restore_priv_vma_content(dirs, d, pages) ==
  RestoreFrom(dirs, open_page_read(dirs), d, [p \in pages |-> Zero])

-----------------------------------------------------------------------------
(* cr-dedup.c *)

\* fallocate(FALLOC_FL_PUNCH_HOLE)
Punch(dirs, d, off, len) ==
  [dirs EXCEPT ![d].pages =
     [i \in DOMAIN @ |-> IF i \in off .. off + len - 1 THEN Zero ELSE @[i]]]

\* Mutant: up to the end of the parent's entry.
PunchEnd_Parent(piov_end, iov_end) == piov_end

PunchEnd(piov_end, iov_end) == IF piov_end < iov_end THEN piov_end ELSE iov_end

\* r is a reader of directory d, off .. iov_end - 1 what d's child has.  It fails
\* when the child has pages beyond the last entry of d.
RECURSIVE dedup_one_iovec(_, _, _, _, _)
dedup_one_iovec(dirs, r, d, off, iov_end) ==
  LET s == seek_pagemap_page(dirs, r, d, off)
      now == s.r[d]
      e == dirs[d].pm[now.pe]
      from == IF s.ret = -1 THEN now.cvaddr ELSE off
      punched == IF e.in_parent THEN dirs
                 ELSE Punch(dirs, d, now.off, PunchEnd(End(e), iov_end) - from)
  IN  IF s.ret = -1 /\ (off >= now.cvaddr \/ now.pe = 0)
      THEN [ret |-> -1, r |-> s.r, dirs |-> dirs]
      ELSE IF s.ret = -1 /\ now.cvaddr >= iov_end
      THEN [ret |-> 0, r |-> s.r, dirs |-> dirs]
      ELSE IF End(e) < iov_end
      THEN dedup_one_iovec(punched, s.r, d, End(e), iov_end)
      ELSE [ret |-> 0, r |-> s.r, dirs |-> punched]

\* cr_dedup_one_pagemap(): entry i of directory d and the ones after it.
RECURSIVE DedupFrom(_, _, _, _)
DedupFrom(dirs, r, d, i) ==
  LET e == dirs[d].pm[i]
      x == dedup_one_iovec(dirs, r, dirs[d].parent, e.vaddr, End(e))
  IN  IF i > Len(dirs[d].pm) THEN [ret |-> 0, dirs |-> dirs]
      ELSE IF e.in_parent THEN DedupFrom(dirs, r, d, i + 1)
      ELSE IF x.ret # 0 THEN [ret |-> -1, dirs |-> x.dirs]
      ELSE DedupFrom(x.dirs, x.r, d, i + 1)

cr_dedup_one_pagemap(dirs, d) ==
  IF dirs[d].parent = 0 THEN [ret |-> 0, dirs |-> dirs]
  ELSE DedupFrom(dirs, open_page_read(dirs), d, 1)

=============================================================================
