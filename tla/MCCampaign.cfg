SPECIFICATION CampaignSpec
CONSTANTS
  ada = ada
  bob = bob
  rev = rev
  eve = eve
  a1 = a1
  a2 = a2
  s1 = s1
  p3 = p3
  p1 = p1
  p2 = p2
  People = {ada, bob, rev, eve}
  Admins = {ada, bob}
  Reviewers = {ada, rev, eve}
  Adjudicators = {bob}
  Creator = ada
  Owner = ada
  Apps = {a1, a2}
  Family <- MCFamily
  Scans = {s1}
  AppOf <- MCAppOf
  confirmed = confirmed
  false_positive = false_positive
  Outcomes = {confirmed, false_positive}
  MinApplications = 1
  MinFamilies = 1
  MinObservations = 1
  MaxScansPerApplication = 1
  Procs = {p1, p2, p3}
  MaxDisturbances = 2
  Null = Null
INVARIANTS DutiesAreSeparate 
SYMMETRY Symmetry
CHECK_DEADLOCK FALSE
