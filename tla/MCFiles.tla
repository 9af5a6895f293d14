------------------------------ MODULE MCFiles ------------------------------
(* The files of a disk of 23 blocks with four cells each.  In the root is  *)
(* a directory with two files; the longer one, and both directories, have  *)
(* a block that is found through the indirect block.                       *)
EXTENDS Files

Dot == 1
sbin == 2
long == 3
short == 4

(* Mode, size, sectors, direct and indirect block, unused: inodes 1 to 6.  *)
Group0 == <<0, 0, 0, 0, 0, 0>> \o <<4, 8, 6, 13, 14, 0>> \o <<8, 6, 6, 19, 20, 0>> \o <<0, 0>>
Group1 == <<4, 8, 6, 16, 17, 0>> \o <<8, 3, 2, 22, 0, 0>> \o <<0, 0, 0, 0, 0, 0>> \o <<0, 0>>

Cells ==
  <<0, 0, 0, 0>> \o <<0, 0, 0, 0>> \o <<3, 8, 0, 0>> \o Group0 \o Group1
    \o <<2, 4, 1, Dot>> \o <<15, 0, 0, 0>> \o <<4, 4, 1, sbin>>
    \o <<3, 4, 1, long>> \o <<18, 0, 0, 0>> \o <<5, 4, 1, short>>
    \o <<101, 102, 103, 104>> \o <<21, 0, 0, 0>> \o <<105, 106, 0, 0>>
    \o <<201, 202, 203, 0>>

DiskImage == [k \in 0..(Len(Cells) - 1) |-> Cells[k + 1]]

Long == <<sbin, long>>
Short == <<Dot, sbin, short>>

(* Two files, one that is not there, and one below a file.                 *)
PathsUsed == {Long, Short, <<short>>, <<sbin, short, short>>}

Stored == [path \in {Long, Short} |->
             IF path = Long THEN <<101, 102, 103, 104, 105, 106>> ELSE <<201, 202, 203>>]

=============================================================================
