\* Two authors, three posts, three profiles; one cell, made ready three times.
SPECIFICATION Spec
CONSTANTS
  ada = ada
  bob = bob
  cell = cell
  Post = {1, 2, 3}
  Profile = {4, 5, 6}
  Account = {ada, bob}
  EmailOf <- Emails
  Cell = {cell}
  MaxListeners = 4
  MaxLate = 1
  Me = ada
  Storyboard = 170
INVARIANTS
  TypeOK
  ScreensFollowClient
  RowsShowTheirAuthor
